---------------------------- MODULE Spec2Model ----------------------------
(***************************************************************************)
(* The streak + pullback strategy engine (bot/strategy_engine.py) and the  *)
(* gap-aware wrappers around it (backend/gap_handling.py).                 *)
(*                                                                         *)
(* A candle is a record [time, open, high, low, close].  Prices are        *)
(* integers; the int()/float() conversions of the source leave such values *)
(* unchanged.  The midpoint (high + low) / 2.0 is kept doubled, so that    *)
(* every comparison against it is exact.                                   *)
(* Indices are 0-based as in the source; At(cs, i) reads candles[i].       *)
(* None is the empty tuple and a value v that may be None is <<v>>.        *)
(***************************************************************************)
EXTENDS Integers, Sequences, FiniteSets, TLC

VARIABLES
    candles,    \* the input list handed to every call
    phase,      \* which call is running
    eng,        \* locals of the running generate_trades_and_setups(candles)
    segments,   \* split_candles_on_gaps(candles) of the running wrapper
    seg_k,      \* position of the wrapper's for loop in segments (0-based)
    g_trades,   \* `trades` of generate_trades_with_gap_resets
    w_trades,   \* `trades` of generate_trades_and_setups_with_gap_resets
    w_setups,   \* `setups` of generate_trades_and_setups_with_gap_resets
    peer,       \* a second, concurrent generate_trades_and_setups: its
                \* candle list and its locals
    locked      \* locals of the running
                \* LockedStreakPullbackStrategy().generate_trades(candles)

vars == <<candles, phase, eng, segments, seg_k, g_trades, w_trades, w_setups, peer,
          locked>>

-----------------------------------------------------------------------------
(* Program constants *)

EXPECTED_STEP_SECONDS == 300
MinStreak == 4
FirstPullback == 1
MaxPullback == 2

SEEK_STREAK == "SEEK_STREAK"
IN_STREAK == "IN_STREAK"
IN_PULLBACK == "IN_PULLBACK"
AWAIT_CONFIRMATION == "AWAIT_CONFIRMATION"

None == <<>>
Some(v) == <<v>>
Get(opt) == opt[1]

At(cs, i) == cs[i + 1]
\* candles[a:b] of the source, for 0 <= a <= b <= len(candles)
Slice(cs, a, b) == SubSeq(cs, a + 1, b)

MinOf(S) == CHOOSE x \in S : \A y \in S : x <= y
MaxOf(S) == CHOOSE x \in S : \A y \in S : x >= y

-----------------------------------------------------------------------------
(* Helpers of the engine *)

\* mutant: a candle without traded volume counts as a doji
candle_dir_NoVolumeIsDoji(c) ==
    IF "volume" \in DOMAIN c /\ c.volume = 0 THEN 0
    ELSE IF c.close > c.open THEN 1
    ELSE IF c.close < c.open THEN -1
    ELSE 0

\* mutant: the difference close - open is returned, not its sign
candle_dir_Difference(c) == c.close - c.open

candle_dir(c) ==
    IF c.close > c.open THEN 1
    ELSE IF c.close < c.open THEN -1
    ELSE 0

\* mutant: a pullback that comes back exactly to the open is invalid too
pullback_invalid_AtOpen(streak_dir, lsc_open, pullback) ==
    IF streak_dir = 1
    THEN \E k \in DOMAIN pullback : pullback[k].low <= lsc_open
    ELSE \E k \in DOMAIN pullback : pullback[k].high >= lsc_open

\* mutant: no pullback is invalid
pullback_invalid_Never(streak_dir, lsc_open, pullback) == FALSE

pullback_invalid(streak_dir, lsc_open, pullback) ==
    IF streak_dir = 1
    THEN MinOf({pullback[k].low : k \in DOMAIN pullback}) < lsc_open
    ELSE MaxOf({pullback[k].high : k \in DOMAIN pullback}) > lsc_open

\* mid = (lsc_high + lsc_low) / 2.0; low <= mid <= high is compared doubled
Touched(lsc_high, lsc_low, pullback) ==
    \E k \in DOMAIN pullback :
        /\ 2 * pullback[k].low <= lsc_high + lsc_low
        /\ lsc_high + lsc_low <= 2 * pullback[k].high

\* mutant: Case B takes the wrong extreme of the pullback
compute_target_WrongExtreme(streak_dir, lsc_high, lsc_low, pullback) ==
    IF Touched(lsc_high, lsc_low, pullback)
    THEN (IF streak_dir = 1 THEN lsc_low ELSE lsc_high)
    ELSE IF streak_dir = 1
         THEN MaxOf({pullback[k].low : k \in DOMAIN pullback})
         ELSE MinOf({pullback[k].high : k \in DOMAIN pullback})

\* mutant: in Case A the target is projected one candle range beyond the
\* extreme of the last streak candle
compute_target_Overshoot(streak_dir, lsc_high, lsc_low, pullback) ==
    IF Touched(lsc_high, lsc_low, pullback)
    THEN (IF streak_dir = 1 THEN lsc_low - (lsc_high - lsc_low)
                            ELSE lsc_high + (lsc_high - lsc_low))
    ELSE (IF streak_dir = 1 THEN MinOf({pullback[k].low : k \in DOMAIN pullback})
                            ELSE MaxOf({pullback[k].high : k \in DOMAIN pullback}))

compute_target(streak_dir, lsc_high, lsc_low, pullback) ==
    IF Touched(lsc_high, lsc_low, pullback)
    THEN (IF streak_dir = 1 THEN lsc_low ELSE lsc_high)
    ELSE IF streak_dir = 1
         THEN MinOf({pullback[k].low : k \in DOMAIN pullback})
         ELSE MaxOf({pullback[k].high : k \in DOMAIN pullback})

\* mutant: a close exactly at the target breaks it too
breaking_condition_AtTarget(streak_dir, close_price, target) ==
    IF streak_dir = 1 THEN close_price <= target ELSE close_price >= target

breaking_condition(streak_dir, close_price, target) ==
    IF streak_dir = 1 THEN close_price < target ELSE close_price > target

RECURSIVE TouchScan(_, _, _)
TouchScan(cs, k, target) ==
    IF k >= Len(cs) THEN None
    ELSE IF At(cs, k).low <= target /\ target <= At(cs, k).high THEN Some(k)
    ELSE TouchScan(cs, k + 1, target)

\* mutant: the scan for the exit starts at the confirmation candle itself
find_first_target_touch_FromEntry(cs, start_idx, target) ==
    TouchScan(cs, start_idx - 1, target)

\* mutant: the scan for the exit does not look beyond a gap in the times
find_first_target_touch_StopAtGap(cs, start_idx, target) ==
    LET r == TouchScan(cs, start_idx, target)
    IN  IF /\ r # None
           /\ \E k \in start_idx..Get(r) :
                 At(cs, k).time - At(cs, k - 1).time > EXPECTED_STEP_SECONDS
        THEN None
        ELSE r

find_first_target_touch(cs, start_idx, target) == TouchScan(cs, start_idx, target)

DirectionName(streak_dir) == IF streak_dir = 1 THEN "BUY" ELSE "SELL"

-----------------------------------------------------------------------------
(* generate_trades_and_setups: the locals after lines 44-64, and one       *)
(* iteration of the while loop per state.  pc is "loop" while the function *)
(* runs, "returned" after a return and "raised" after the RuntimeError.    *)

EngineInit(cs) ==
    [ pc |-> IF cs = <<>> THEN "returned" ELSE "loop",
      trades |-> <<>>, setups |-> <<>>,
      state |-> SEEK_STREAK,
      streak_dir |-> 0, streak_start_idx |-> 0, streak_length |-> 0,
      lsc_idx |-> None, setup_streak_length |-> None,
      pullback_start_idx |-> None, pullback_length |-> None,
      pending |-> None,
      i |-> 0 ]

\* mutant: the new streak carries the length of the old one over
NewStreak_KeepsLength(e, c_dir, next_state) ==
    [e EXCEPT !.streak_dir = c_dir, !.streak_start_idx = e.i,
              !.streak_length = e.streak_length + 1, !.state = next_state,
              !.i = e.i + 1]

\* mutant: the candle that starts a streak is not stepped over
NewStreak_NoAdvance(e, c_dir, next_state) ==
    [e EXCEPT !.streak_dir = c_dir, !.streak_start_idx = e.i,
              !.streak_length = 1, !.state = next_state]

\* mutant: the candle that starts a streak is counted twice
NewStreak_CountsTwice(e, c_dir, next_state) ==
    [e EXCEPT !.streak_dir = c_dir, !.streak_start_idx = e.i,
              !.streak_length = 2, !.state = next_state, !.i = e.i + 1]

\* streak_dir = c_dir; streak_start_idx = i; streak_length = 1; i += 1
NewStreak(e, c_dir, next_state) ==
    [e EXCEPT !.streak_dir = c_dir, !.streak_start_idx = e.i,
              !.streak_length = 1, !.state = next_state, !.i = e.i + 1]

SeekStreakStep(e, c_dir) ==
    IF c_dir = 0
    THEN [e EXCEPT !.i = e.i + 1]
    ELSE NewStreak(e, c_dir, IN_STREAK)

\* mutant: a streak of three opens a pullback
StreakLongEnough_Three(streak_length) == streak_length >= MinStreak - 1

StreakLongEnough(streak_length) == streak_length >= MinStreak

\* mutant: the length of the streak is not kept for the setup
OpenPullback_NoStreakLength(e) ==
    [e EXCEPT !.lsc_idx = Some(e.i - 1),
              !.pullback_start_idx = Some(e.i),
              !.pullback_length = Some(FirstPullback),
              !.state = IN_PULLBACK, !.i = e.i + 1]

\* lines 92-99: the opposite candle after a streak of four or more
OpenPullback(e) ==
    [e EXCEPT !.lsc_idx = Some(e.i - 1),
              !.setup_streak_length = Some(e.streak_length),
              !.pullback_start_idx = Some(e.i),
              !.pullback_length = Some(FirstPullback),
              !.state = IN_PULLBACK, !.i = e.i + 1]

\* mutant: the candle that ends a streak too short is skipped
InStreakStep_SkipsTheEnd(e, c_dir) ==
    IF c_dir = e.streak_dir
    THEN [e EXCEPT !.streak_length = e.streak_length + 1, !.i = e.i + 1]
    ELSE IF c_dir = 0
    THEN [e EXCEPT !.state = SEEK_STREAK, !.i = e.i + 1]
    ELSE IF StreakLongEnough(e.streak_length)
    THEN OpenPullback(e)
    ELSE [e EXCEPT !.state = SEEK_STREAK, !.i = e.i + 1]

\* mutant: a doji inside a streak is skipped and the streak goes on
InStreakStep_SkipsDoji(e, c_dir) ==
    IF c_dir = e.streak_dir
    THEN [e EXCEPT !.streak_length = e.streak_length + 1, !.i = e.i + 1]
    ELSE IF c_dir = 0
    THEN [e EXCEPT !.i = e.i + 1]
    ELSE IF StreakLongEnough(e.streak_length)
    THEN OpenPullback(e)
    ELSE NewStreak(e, c_dir, IN_STREAK)

\* lines 80-106
InStreakStep(e, c_dir) ==
    IF c_dir = e.streak_dir
    THEN [e EXCEPT !.streak_length = e.streak_length + 1, !.i = e.i + 1]
    ELSE IF c_dir = 0
    THEN [e EXCEPT !.state = SEEK_STREAK, !.i = e.i + 1]
    ELSE IF StreakLongEnough(e.streak_length)
    THEN OpenPullback(e)
    ELSE NewStreak(e, c_dir, IN_STREAK)

\* mutant: the pullback is never too long
MayExtendPullback_Always(pullback_length) == pullback_length <= MaxPullback

\* if pullback_length == 1: pullback_length = 2
MayExtendPullback(pullback_length) == pullback_length = FirstPullback

\* mutant: the third opposite candle is not counted in the new streak
ReseedFromPullback_LengthTwo(e, c_dir) ==
    [e EXCEPT !.streak_dir = c_dir,
              !.streak_start_idx = Get(e.pullback_start_idx),
              !.streak_length = Get(e.pullback_length),
              !.state = IN_STREAK, !.i = e.i + 1]

\* mutant: the new streak is taken to start at the third opposite candle
ReseedFromPullback_StartsHere(e, c_dir) ==
    [e EXCEPT !.streak_dir = c_dir,
              !.streak_start_idx = e.i,
              !.streak_length = Get(e.pullback_length) + 1,
              !.state = IN_STREAK, !.i = e.i + 1]

\* the 3rd opposite candle: a new streak from the pullback's first candle
ReseedFromPullback(e, c_dir) ==
    [e EXCEPT !.streak_dir = c_dir,
              !.streak_start_idx = Get(e.pullback_start_idx),
              !.streak_length = Get(e.pullback_length) + 1,
              !.state = IN_STREAK, !.i = e.i + 1]

\* mutant: a pullback of more than two candles is an error
OppositeInPullback_Raises(e, c_dir) ==
    IF MayExtendPullback(Get(e.pullback_length))
    THEN [e EXCEPT !.pullback_length = Some(MaxPullback), !.i = e.i + 1]
    ELSE [e EXCEPT !.pc = "raised"]

OppositeInPullback(e, c_dir) ==
    IF MayExtendPullback(Get(e.pullback_length))
    THEN [e EXCEPT !.pullback_length = Some(MaxPullback), !.i = e.i + 1]
    ELSE ReseedFromPullback(e, c_dir)

PullbackOf(e, cs) ==
    Slice(cs, Get(e.pullback_start_idx),
              Get(e.pullback_start_idx) + Get(e.pullback_length))

\* mutant: the setup is recorded with the pullback's first length
SetupRecord_FirstPullback(e, candle, target) ==
    [ time |-> candle.time,
      direction |-> DirectionName(e.streak_dir),
      streak_length |-> Get(e.setup_streak_length),
      pullback_length |-> FirstPullback,
      target |-> target ]

SetupRecord(e, candle, target) ==
    [ time |-> candle.time,
      direction |-> DirectionName(e.streak_dir),
      streak_length |-> Get(e.setup_streak_length),
      pullback_length |-> Get(e.pullback_length),
      target |-> target ]

PendingSetup(e, candle, target) ==
    [ streak_dir |-> e.streak_dir,
      streak_length |-> Get(e.setup_streak_length),
      pullback_start_idx |-> Get(e.pullback_start_idx),
      pullback_length |-> Get(e.pullback_length),
      target |-> target,
      breaking_candle_time |-> candle.time ]

\* lines 142-190: the breaking candle
BreakingCandle(e, cs, c_dir) ==
    LET candle == At(cs, e.i)
        pullback == PullbackOf(e, cs)
        lsc == At(cs, Get(e.lsc_idx))
    IN  IF pullback_invalid(e.streak_dir, lsc.open, pullback)
        THEN NewStreak(e, c_dir, IN_STREAK)
        ELSE LET target == compute_target(e.streak_dir, lsc.high, lsc.low, pullback)
                 s == [e EXCEPT !.setups = Append(e.setups, SetupRecord(e, candle, target))]
             IN  IF ~breaking_condition(e.streak_dir, candle.close, target)
                 THEN NewStreak(s, c_dir, IN_STREAK)
                 ELSE [s EXCEPT !.pending = Some(PendingSetup(e, candle, target)),
                                !.state = AWAIT_CONFIRMATION, !.i = e.i + 1]

InPullbackStep(e, cs, c_dir) ==
    IF \/ e.lsc_idx = None \/ e.setup_streak_length = None
       \/ e.pullback_start_idx = None \/ e.pullback_length = None
    THEN [e EXCEPT !.pc = "raised"]
    ELSE IF c_dir = 0
    THEN [e EXCEPT !.state = SEEK_STREAK, !.i = e.i + 1]
    ELSE IF c_dir = -e.streak_dir
    THEN OppositeInPullback(e, c_dir)
    ELSE IF c_dir # e.streak_dir
    THEN [e EXCEPT !.state = SEEK_STREAK, !.i = e.i + 1]
    ELSE BreakingCandle(e, cs, c_dir)

TradeRecord(pending, entry_time, entry_price, exit_candle) ==
    [ direction |-> DirectionName(pending.streak_dir),
      streak_length |-> pending.streak_length,
      pullback_length |-> pending.pullback_length,
      target |-> pending.target,
      breaking_candle_time |-> pending.breaking_candle_time,
      entry |-> [time |-> entry_time, price |-> entry_price],
      exit |-> [time |-> exit_candle.time, price |-> pending.target] ]

\* mutant: the unresolved entry is skipped and the scan goes on
NoExitFound_Skip(e) ==
    [e EXCEPT !.pending = None, !.state = SEEK_STREAK, !.i = e.i + 1]

\* mutant: the setup of the entry that found no exit is dropped on return
NoExitFound_DropsItsSetup(e) ==
    [e EXCEPT !.pc = "returned",
              !.setups = SubSeq(e.setups, 1, Len(e.setups) - 1)]

\* exit_idx is None: return trades, setups
NoExitFound(e) == [e EXCEPT !.pc = "returned"]

\* mutant: the scan resumes after the entry candle
ResumeAfter_Entry(i, exit_idx) == i + 1

\* mutant: the scan resumes at the exit candle
ResumeAfter_AtExit(i, exit_idx) == exit_idx

\* lines 233-236: resume scanning after the exit candle
ResumeAfter(i, exit_idx) == exit_idx + 1

\* mutant: the state is not reset after a trade
Confirmed_KeepsState(e, cs) ==
    LET candle == At(cs, e.i)
        pending == Get(e.pending)
        exit_idx == find_first_target_touch(cs, e.i + 1, pending.target)
    IN  IF exit_idx = None
        THEN NoExitFound(e)
        ELSE [e EXCEPT !.trades = Append(e.trades,
                            TradeRecord(pending, candle.time, candle.close,
                                        At(cs, Get(exit_idx)))),
                       !.i = ResumeAfter(e.i, Get(exit_idx))]

\* lines 210-237: the confirmation candle matches
Confirmed(e, cs) ==
    LET candle == At(cs, e.i)
        pending == Get(e.pending)
        exit_idx == find_first_target_touch(cs, e.i + 1, pending.target)
    IN  IF exit_idx = None
        THEN NoExitFound(e)
        ELSE [e EXCEPT !.trades = Append(e.trades,
                            TradeRecord(pending, candle.time, candle.close,
                                        At(cs, Get(exit_idx)))),
                       !.pending = None,
                       !.state = SEEK_STREAK,
                       !.i = ResumeAfter(e.i, Get(exit_idx))]

\* mutant: a candle that does not confirm is skipped and the next one may
ConfirmationMismatch_Waits(e, c_dir) == [e EXCEPT !.i = e.i + 1]

\* lines 196-208: the candle after the breaking candle does not confirm
ConfirmationMismatch(e, c_dir) ==
    IF c_dir = 0
    THEN [e EXCEPT !.state = SEEK_STREAK, !.i = e.i + 1]
    ELSE NewStreak(e, c_dir, IN_STREAK)

AwaitConfirmationStep(e, cs, c_dir) ==
    IF e.pending = None
    THEN [e EXCEPT !.pc = "raised"]
    ELSE IF c_dir # Get(e.pending).streak_dir
    THEN ConfirmationMismatch(e, c_dir)
    ELSE Confirmed(e, cs)

\* One iteration of `while i < n` (lines 65-239)
LoopBody(e, cs) ==
    LET c_dir == candle_dir(At(cs, e.i))
    IN  CASE e.state = SEEK_STREAK -> SeekStreakStep(e, c_dir)
          [] e.state = IN_STREAK -> InStreakStep(e, c_dir)
          [] e.state = IN_PULLBACK -> InPullbackStep(e, cs, c_dir)
          [] e.state = AWAIT_CONFIRMATION -> AwaitConfirmationStep(e, cs, c_dir)
          [] OTHER -> [e EXCEPT !.pc = "raised"]

\* The loop condition fails: return trades, setups (line 241)
LoopExit(e) == [e EXCEPT !.pc = "returned"]

EngineStep(e, cs) ==
    IF e.i < Len(cs) THEN LoopBody(e, cs) ELSE LoopExit(e)

RECURSIVE RunEngine(_, _)
RunEngine(e, cs) ==
    IF e.pc # "loop" THEN e ELSE RunEngine(EngineStep(e, cs), cs)

generate_trades_and_setups(cs) ==
    LET r == RunEngine(EngineInit(cs), cs) IN <<r.trades, r.setups>>

generate_trades(cs) == generate_trades_and_setups(cs)[1]

-----------------------------------------------------------------------------
(* backend/gap_handling.py *)

\* mutant: the difference is taken the wrong way round
GapBetween_Swapped(prev_time, curr_time, expected_step_seconds) ==
    prev_time - curr_time > expected_step_seconds

\* mutant: a regular step counts as a gap
GapBetween_AtLeast(prev_time, curr_time, expected_step_seconds) ==
    curr_time - prev_time >= expected_step_seconds

GapBetween(prev_time, curr_time, expected_step_seconds) ==
    curr_time - prev_time > expected_step_seconds

\* mutant: the next segment starts where the closed one started
CloseSegment_KeepStart(cs, segs, start, i) ==
    LET seg == Slice(cs, start, i)
    IN  <<IF seg # <<>> THEN Append(segs, seg) ELSE segs, start>>

\* lines 25-28: close the running segment at i and start the next one there
CloseSegment(cs, segs, start, i) ==
    LET seg == Slice(cs, start, i)
    IN  <<IF seg # <<>> THEN Append(segs, seg) ELSE segs, i>>

\* the for loop of lines 16-28, from index i on; the result is <<segments, start>>
RECURSIVE SplitLoop(_, _, _, _, _)
SplitLoop(cs, expected_step_seconds, i, segs, start) ==
    IF i >= Len(cs) THEN <<segs, start>>
    ELSE IF GapBetween(At(cs, i - 1).time, At(cs, i).time, expected_step_seconds)
    THEN LET r == CloseSegment(cs, segs, start, i)
         IN  SplitLoop(cs, expected_step_seconds, i + 1, r[1], r[2])
    ELSE SplitLoop(cs, expected_step_seconds, i + 1, segs, start)

split_candles_on_gaps(cs, expected_step_seconds) ==
    IF cs = <<>> THEN <<>>
    ELSE LET r == SplitLoop(cs, expected_step_seconds, 1, <<>>, 0)
             tail == Slice(cs, r[2], Len(cs))
         IN  IF tail # <<>> THEN Append(r[1], tail) ELSE r[1]

\* mutant: the engine is run on the whole list for every segment
ExtendTrades_Whole(trades, segment) == trades \o generate_trades(candles)

\* trades.extend(generate_trades(segment))
ExtendTrades(trades, segment) == trades \o generate_trades(segment)

\* mutant: each segment's results replace those of the segments before
ExtendBoth_Overwrite(trades, setups, segment) == generate_trades_and_setups(segment)

\* mutant: the results of a segment are put in front of the earlier ones
ExtendBoth_Prepend(trades, setups, segment) ==
    LET r == generate_trades_and_setups(segment)
    IN  <<r[1] \o trades, r[2] \o setups>>

\* seg_trades, seg_setups = generate_trades_and_setups(segment); both extended
ExtendBoth(trades, setups, segment) ==
    LET r == generate_trades_and_setups(segment)
    IN  <<trades \o r[1], setups \o r[2]>>

-----------------------------------------------------------------------------
(* bot/locked_strategy.py: LockedStreakPullbackStrategy.generate_trades on *)
(* a frame with one row per candle.  The columns are read by index; the    *)
(* locals that live across iterations of the outer while loop are i and    *)
(* trades, and one iteration of that loop is one step.  A pandas Timestamp *)
(* is the record [utc |-> t] of the instant it denotes.                    *)

Timestamp(t) == [utc |-> t]

\* color = np.where(bull, 1, np.where(bear, -1, 0))
color(cs, k) == candle_dir(At(cs, k))

\* while j < n and color[j] == streak_dir: j += 1
RECURSIVE StreakEnd(_, _, _)
StreakEnd(cs, j, streak_dir) ==
    IF j < Len(cs) /\ color(cs, j) = streak_dir
    THEN StreakEnd(cs, j + 1, streak_dir)
    ELSE j

find_first_touch_after(cs, target, start_idx) == TouchScan(cs, start_idx, target)

\* the text of the explanation is a function of these values
explain_trade(direction, streak_len, pullback_len, lsc_open, lsc_mid2, touched_50, target, breaking_close, entry_price, exit_price) ==
    [ direction |-> direction, streak_len |-> streak_len,
      pullback_len |-> pullback_len, lsc_open |-> lsc_open,
      lsc_mid_doubled |-> lsc_mid2, touched_50 |-> touched_50,
      target |-> target, breaking_close |-> breaking_close,
      entry_price |-> entry_price, exit_price |-> exit_price ]

Trade(entry_time, entry_price, exit_time, exit_price, direction, streak_length, pullback_length, target, explanation) ==
    [ entry_time |-> entry_time, entry_price |-> entry_price,
      exit_time |-> exit_time, exit_price |-> exit_price,
      direction |-> direction, streak_length |-> streak_length,
      pullback_length |-> pullback_length, target |-> target,
      explanation |-> explanation ]

\* lines 14-15 and 18-35
LockedInit(cs) ==
    [ pc |-> IF cs = <<>> THEN "returned" ELSE "loop",
      allow_long |-> TRUE, allow_short |-> TRUE,
      trades |-> <<>>,
      i |-> 0 ]

LockedContinue(l, i) == [l EXCEPT !.i = i]
LockedBreak(l) == [l EXCEPT !.pc = "returned"]

\* lines 106-160: the candle after the breaking candle
LockedConfirm(l, cs, streak_dir, streak_len, lsc_idx, pb_len, touched_50, target, breaking_idx) ==
    LET confirm_idx == breaking_idx + 1
        direction == IF streak_dir = 1 THEN "long" ELSE "short"
        lsc == At(cs, lsc_idx)
    IN  IF confirm_idx >= Len(cs) THEN LockedBreak(l)
        ELSE IF color(cs, confirm_idx) # streak_dir THEN LockedContinue(l, confirm_idx)
        ELSE IF streak_dir = 1 /\ ~l.allow_long THEN LockedContinue(l, confirm_idx + 1)
        ELSE IF streak_dir = -1 /\ ~l.allow_short THEN LockedContinue(l, confirm_idx + 1)
        ELSE LET entry_price == At(cs, confirm_idx).close
                 exit_idx == find_first_touch_after(cs, target, confirm_idx + 1)
             IN  IF exit_idx = None THEN LockedBreak(l)
                 ELSE [l EXCEPT
                         !.trades = Append(l.trades,
                             Trade(Timestamp(At(cs, confirm_idx).time), entry_price,
                                   Timestamp(At(cs, Get(exit_idx)).time), target,
                                   direction, streak_len, pb_len, target,
                                   explain_trade(direction, streak_len, pb_len,
                                       lsc.open, lsc.high + lsc.low, touched_50,
                                       target, At(cs, breaking_idx).close,
                                       entry_price, target))),
                         !.i = Get(exit_idx) + 1]

\* lines 51-104: the candles after a streak of four or more that ends at j
LockedPullback(l, cs, streak_dir, streak_len, j) ==
    LET n == Len(cs)
        lsc_idx == j - 1
        pb_start == j
    IN  IF pb_start >= n THEN LockedBreak(l)
        ELSE IF color(cs, pb_start) # -streak_dir THEN LockedContinue(l, pb_start)
        ELSE
        LET pb_len == IF pb_start + 1 < n /\ color(cs, pb_start + 1) = -streak_dir
                      THEN 2 ELSE 1
            pb == Slice(cs, pb_start, pb_start + pb_len)
            lsc == At(cs, lsc_idx)
            pb_low == MinOf({pb[k].low : k \in DOMAIN pb})
            pb_high == MaxOf({pb[k].high : k \in DOMAIN pb})
            touched_50 ==
                \E k \in DOMAIN pb :
                    2 * pb[k].low <= lsc.high + lsc.low /\ 2 * pb[k].high >= lsc.high + lsc.low
            target == IF touched_50
                      THEN (IF streak_dir = 1 THEN lsc.low ELSE lsc.high)
                      ELSE (IF streak_dir = 1 THEN pb_low ELSE pb_high)
            breaking_idx == pb_start + pb_len
        IN  IF (IF streak_dir = 1 THEN pb_low < lsc.open ELSE pb_high > lsc.open)
            THEN LockedContinue(l, pb_start + pb_len)
            ELSE IF breaking_idx >= n THEN LockedBreak(l)
            ELSE IF color(cs, breaking_idx) = 0 THEN LockedContinue(l, breaking_idx + 1)
            ELSE IF ~(IF streak_dir = 1 THEN At(cs, breaking_idx).close < target
                                        ELSE At(cs, breaking_idx).close > target)
            THEN LockedContinue(l, breaking_idx)
            ELSE LockedConfirm(l, cs, streak_dir, streak_len, lsc_idx, pb_len,
                               touched_50, target, breaking_idx)

\* One iteration of `while i < n` (lines 36-160)
LockedLoopBody(l, cs) ==
    IF color(cs, l.i) = 0 THEN LockedContinue(l, l.i + 1)
    ELSE LET streak_dir == color(cs, l.i)
             j == StreakEnd(cs, l.i, streak_dir)
             streak_len == j - l.i
         IN  IF streak_len < 4 THEN LockedContinue(l, j)
             ELSE LockedPullback(l, cs, streak_dir, streak_len, j)

\* the loop condition fails: return trades (line 162)
LockedStep(l, cs) ==
    IF l.i < Len(cs) THEN LockedLoopBody(l, cs) ELSE LockedBreak(l)

RECURSIVE RunLocked(_, _)
RunLocked(l, cs) ==
    IF l.pc # "loop" THEN l ELSE RunLocked(LockedStep(l, cs), cs)

Locked_generate_trades(cs) == RunLocked(LockedInit(cs), cs).trades

-----------------------------------------------------------------------------
(* The inputs.  A candle list is built from the four patterns the tests    *)
(* build (a streak of four, a pullback of one or two, a breaking candle,   *)
(* a confirmation candle, an exit candle; bullish and bearish; Case A and  *)
(* Case B), each changed in at most one place: one candle replaced by any  *)
(* shape, one candle of any shape inserted, or one candle removed.  One    *)
(* pattern alone may have one irregular time step; two patterns in a row   *)
(* are joined by a regular step or a gap, the second one in the same price *)
(* region or, as in test_strategy_resets_at_gaps_and_continues_processing, *)
(* in a distinct one.                                                      *)
(* A trade may also stay open while a whole pattern passes in the other    *)
(* price region.                                                           *)
(* Two more patterns sit on the boundaries of the comparisons, and two     *)
(* have a streak that began as the pullback of an earlier streak.          *)
(* Two patterns have a candle whose low or high is not an extreme of it.   *)

Shape(o, h, l, c) == [open |-> o, high |-> h, low |-> l, close |-> c]

U   == Shape(3, 5, 3, 5)    \* bullish
Ud  == Shape(4, 4, 2, 2)    \* bearish, U mirrored
DA  == Shape(5, 5, 4, 4)    \* bearish, contains the midpoint of U
DAu == Shape(2, 3, 2, 3)    \* bullish, DA mirrored
DB  == Shape(6, 6, 5, 5)    \* bearish, above the midpoint of U
B   == Shape(1, 2, 1, 2)    \* bullish, DB mirrored
DC  == Shape(7, 7, 6, 6)    \* bearish, above DB
Bc  == Shape(0, 1, 0, 1)    \* bullish, DC mirrored
Z   == Shape(4, 4, 4, 4)    \* doji

\* the shapes a candle is replaced by, and the shapes of an inserted candle
Shapes == {U, Ud, DA, DAu, DB, B, Z}

BuyCaseA  == <<U, U, U, U, DA, B, B, U>>
BuyCaseB  == <<U, U, U, U, DC, DB, B, B, U>>
SellCaseA == <<Ud, Ud, Ud, Ud, DAu, DB, DB, Ud>>
SellCaseB == <<Ud, Ud, Ud, Ud, Bc, B, DB, DB, Ud>>

Patterns == {BuyCaseA, BuyCaseB, SellCaseA, SellCaseB}

\* the patterns at the boundaries: the pullback comes back exactly to the
\* open of the last streak candle, and the confirmation candle contains
\* the target
BuyEdge  == <<U, U, U, DAu, Ud, Bc, B, Ud>>
SellEdge == <<Ud, Ud, Ud, DA, U, DC, DB, U>>

EdgePatterns == {BuyEdge, SellEdge}

\* the patterns whose streak began as a pullback of an earlier streak: four
\* candles, four opposite ones, then pullback, breaking, confirmation, exit
SellReseed == <<U, U, U, U, DA, DA, DA, DA, U, DC, DB, U>>
BuyReseed  == <<Ud, Ud, Ud, Ud, DAu, DAu, DAu, DAu, Ud, Bc, B, Ud>>

ReseedPatterns == {SellReseed, BuyReseed}

\* the patterns with a candle that is not well formed: the last streak
\* candle has its low above its open (its high below its open), and the
\* pullback reaches between the two
X  == Shape(3, 5, 5, 5)    \* bullish, low above open
Xd == Shape(4, 2, 2, 2)    \* bearish, X mirrored
BuyIllFormed  == <<U, U, U, X, DA, B, B, U>>
SellIllFormed == <<Ud, Ud, Ud, Xd, DAu, DB, DB, Ud>>

IllFormedPatterns == {BuyIllFormed, SellIllFormed}

\* the first streak of a list may be longer by up to MaxStreakPad candles
MaxStreakPad == 1
\* an irregular step is shorter or longer than the expected 300 seconds
ShortStep == 150
LongStep == 600
\* the distance of the distinct price region
PriceLift == 10

Replaced(w) == {[w EXCEPT ![p] = s] : p \in DOMAIN w, s \in Shapes}
Inserted(w) ==
    {SubSeq(w, 1, p - 1) \o <<s>> \o SubSeq(w, p, Len(w)) :
        p \in 1..(Len(w) + 1), s \in Shapes}
Removed(w) == {SubSeq(w, 1, p - 1) \o SubSeq(w, p + 1, Len(w)) : p \in DOMAIN w}
Edited(w) == {w} \cup Replaced(w) \cup Inserted(w) \cup Removed(w)

Padded(w) ==
    {[k \in 1..j |-> w[1]] \o w : j \in 1..(IF w = <<>> THEN 0 ELSE MaxStreakPad)}

Episodes == UNION {Edited(w) : w \in Patterns}

\* w with times: the first candle at t0, then the steps of `steps`
RECURSIVE TimeAt(_, _, _)
TimeAt(t0, steps, k) == IF k = 1 THEN t0 ELSE TimeAt(t0, steps, k - 1) + steps[k - 1]

Timed(w, t0, steps) ==
    [k \in DOMAIN w |->
        [time |-> TimeAt(t0, steps, k), open |-> w[k].open, high |-> w[k].high,
         low |-> w[k].low, close |-> w[k].close]]

Regular(n) == [k \in 1..(n - 1) |-> EXPECTED_STEP_SECONDS]
OneIrregular(n, d) == {[Regular(n) EXCEPT ![p] = d] : p \in 1..(n - 1)}

Lifted(w, by) ==
    [k \in DOMAIN w |-> Shape(w[k].open + by, w[k].high + by, w[k].low + by,
                              w[k].close + by)]

SingleInputs ==
    UNION {{Timed(w, 0, st) : st \in {Regular(Len(w))} \cup OneIrregular(Len(w), LongStep)} :
             w \in Episodes \cup {<<>>}}
    \cup UNION {{Timed(w, 0, st) : st \in OneIrregular(Len(w), ShortStep)} :
                  w \in Patterns}
    \cup UNION {{Timed(p, 0, Regular(Len(p))) : p \in Padded(w)} : w \in Episodes}
    \cup {Timed(w, 0, Regular(Len(w))) :
              w \in UNION {Edited(e) : e \in EdgePatterns \cup ReseedPatterns}}
    \cup {Timed(w, 0, Regular(Len(w))) : w \in IllFormedPatterns}

Joined(a, b, d, by) ==
    LET ta == Timed(a, 0, Regular(Len(a)))
    IN  ta \o Timed(Lifted(b, by), ta[Len(ta)].time + d, Regular(Len(b)))

DoubleInputs ==
    {Joined(a, b, d, by) : a \in Episodes \ {<<>>}, b \in Patterns,
                           d \in {EXPECTED_STEP_SECONDS, LongStep}, by \in {0, PriceLift}}
    \cup {Joined(a, b, EXPECTED_STEP_SECONDS, 0) : a \in Patterns, b \in Episodes \ {<<>>}}

\* a pattern without its exit candle, a whole pattern in the distinct price
\* region, and one more candle in the first region
Front(w) == SubSeq(w, 1, Len(w) - 1)

SandwichInputs ==
    {LET ab == Joined(Front(a), b, d, PriceLift)
     IN  ab \o Timed(<<s>>, ab[Len(ab)].time + EXPECTED_STEP_SECONDS, <<>>) :
        a \in Patterns, b \in Patterns, d \in {EXPECTED_STEP_SECONDS, LongStep},
        s \in Shapes}

Inputs == SingleInputs \cup DoubleInputs \cup SandwichInputs

-----------------------------------------------------------------------------
(* The program: generate_trades_and_setups(candles), one loop iteration    *)
(* per step, then generate_trades_with_gap_resets(candles) and             *)
(* generate_trades_and_setups_with_gap_resets(candles), one segment per    *)
(* step, as the tests of tests/test_backend_gap_handling.py call them.     *)

\* no second invocation is running
NoPeer == [candles |-> <<>>, eng |-> EngineInit(<<>>)]
\* the numpy-based strategy is not running
NoLocked == LockedInit(<<>>)

Init ==
    /\ candles \in Inputs
    /\ phase = "engine"
    /\ eng = EngineInit(candles)
    /\ segments = <<>>
    /\ seg_k = 0
    /\ g_trades = <<>>
    /\ w_trades = <<>>
    /\ w_setups = <<>>
    /\ peer = NoPeer
    /\ locked = NoLocked

\* one iteration of the while loop, or the loop's exit
EngineIterate ==
    /\ phase = "engine"
    /\ eng.pc = "loop"
    /\ eng' = EngineStep(eng, candles)
    /\ UNCHANGED <<candles, phase, segments, seg_k, g_trades, w_trades, w_setups, peer, locked>>

\* generate_trades_with_gap_resets is called: lines 43-44
GapTradesCall ==
    /\ phase = "engine"
    /\ eng.pc = "returned"
    /\ phase' = "gap_trades"
    /\ segments' = split_candles_on_gaps(candles, EXPECTED_STEP_SECONDS)
    /\ seg_k' = 0
    /\ g_trades' = <<>>
    /\ UNCHANGED <<candles, eng, w_trades, w_setups, peer, locked>>

\* line 45, for the next segment
GapTradesSegment ==
    /\ phase = "gap_trades"
    /\ seg_k < Len(segments)
    /\ g_trades' = ExtendTrades(g_trades, At(segments, seg_k))
    /\ seg_k' = seg_k + 1
    /\ UNCHANGED <<candles, phase, eng, segments, w_trades, w_setups, peer, locked>>

\* line 46, and generate_trades_and_setups_with_gap_resets is called: 58-60
GapBothCall ==
    /\ phase = "gap_trades"
    /\ seg_k >= Len(segments)
    /\ phase' = "gap_both"
    /\ segments' = split_candles_on_gaps(candles, EXPECTED_STEP_SECONDS)
    /\ seg_k' = 0
    /\ w_trades' = <<>>
    /\ w_setups' = <<>>
    /\ UNCHANGED <<candles, eng, g_trades, peer, locked>>

\* lines 61-63, for the next segment
GapBothSegment ==
    /\ phase = "gap_both"
    /\ seg_k < Len(segments)
    /\ LET r == ExtendBoth(w_trades, w_setups, At(segments, seg_k))
       IN  w_trades' = r[1] /\ w_setups' = r[2]
    /\ seg_k' = seg_k + 1
    /\ UNCHANGED <<candles, phase, eng, segments, g_trades, peer, locked>>

\* line 64
GapBothReturn ==
    /\ phase = "gap_both"
    /\ seg_k >= Len(segments)
    /\ phase' = "done"
    /\ UNCHANGED <<candles, eng, segments, seg_k, g_trades, w_trades, w_setups, peer, locked>>

Next ==
    \/ EngineIterate
    \/ GapTradesCall
    \/ GapTradesSegment
    \/ GapBothCall
    \/ GapBothSegment
    \/ GapBothReturn

Spec == Init /\ [][Next]_vars

\* the call runs: an iteration that can be taken is taken
SpecFair == Spec /\ WF_vars(EngineIterate)

-----------------------------------------------------------------------------
(* Two invocations of generate_trades_and_setups at once, each on its own  *)
(* candle list, their loop iterations interleaved in any order.            *)

\* a pattern, whole and without its exit candle, and the empty list
PairInputs ==
    {Timed(w, 0, Regular(Len(w))) :
        w \in Patterns \cup EdgePatterns \cup {Front(p) : p \in Patterns} \cup {<<>>}}

InitPair ==
    /\ candles \in PairInputs
    /\ phase = "pair"
    /\ eng = EngineInit(candles)
    /\ segments = <<>>
    /\ seg_k = 0
    /\ g_trades = <<>>
    /\ w_trades = <<>>
    /\ w_setups = <<>>
    /\ \E cs \in PairInputs : peer = [candles |-> cs, eng |-> EngineInit(cs)]
    /\ locked = NoLocked

\* one loop iteration of the first invocation
PairStepOwn ==
    /\ phase = "pair"
    /\ eng.pc = "loop"
    /\ eng' = EngineStep(eng, candles)
    /\ UNCHANGED <<candles, phase, segments, seg_k, g_trades, w_trades, w_setups, peer, locked>>

\* mutant: the scan cursor i is one variable shared by the invocations
PairStepPeer_SharedCursor ==
    /\ phase = "pair"
    /\ peer.eng.pc = "loop"
    /\ LET r == EngineStep([peer.eng EXCEPT !.i = eng.i], peer.candles)
       IN  /\ peer' = [peer EXCEPT !.eng = r]
           /\ eng' = [eng EXCEPT !.i = r.i]
    /\ UNCHANGED <<candles, phase, segments, seg_k, g_trades, w_trades, w_setups, locked>>

\* one loop iteration of the second invocation
PairStepPeer ==
    /\ phase = "pair"
    /\ peer.eng.pc = "loop"
    /\ peer' = [peer EXCEPT !.eng = EngineStep(peer.eng, peer.candles)]
    /\ UNCHANGED <<candles, phase, eng, segments, seg_k, g_trades, w_trades, w_setups,
                   locked>>

NextPair ==
    \/ PairStepOwn
    \/ PairStepPeer

SpecPair == InitPair /\ [][NextPair]_vars

-----------------------------------------------------------------------------
(* LockedStreakPullbackStrategy().generate_trades(candles) on the rows of  *)
(* the same candles, one iteration of its outer loop per step.             *)

InitLocked ==
    /\ candles \in Inputs
    /\ phase = "locked"
    /\ eng = EngineInit(candles)
    /\ segments = <<>>
    /\ seg_k = 0
    /\ g_trades = <<>>
    /\ w_trades = <<>>
    /\ w_setups = <<>>
    /\ peer = NoPeer
    /\ locked = LockedInit(candles)

\* one iteration of the outer while loop, or the loop's exit
LockedIterate ==
    /\ phase = "locked"
    /\ locked.pc = "loop"
    /\ locked' = LockedStep(locked, candles)
    /\ UNCHANGED <<candles, phase, eng, segments, seg_k, g_trades, w_trades, w_setups, peer>>

\* generate_trades(candles) of the dict-based engine is called on return
LockedThenEngine ==
    /\ phase = "locked"
    /\ locked.pc = "returned"
    /\ phase' = "compared"
    /\ eng' = RunEngine(EngineInit(candles), candles)
    /\ UNCHANGED <<candles, segments, seg_k, g_trades, w_trades, w_setups, peer, locked>>

NextLocked ==
    \/ LockedIterate
    \/ LockedThenEngine

SpecLocked == InitLocked /\ [][NextLocked]_vars

-----------------------------------------------------------------------------
(* What the claims speak of *)

StrictlyIncreasingTimes(cs) ==
    \A k \in 1..(Len(cs) - 1) : cs[k].time < cs[k + 1].time

\* the index of the candle with time t
IdxOfTime(cs, t) == CHOOSE k \in 0..(Len(cs) - 1) : At(cs, k).time = t

IsGap(cs, k) == At(cs, k).time - At(cs, k - 1).time > EXPECTED_STEP_SECONDS
HasGap(cs) == \E k \in 1..(Len(cs) - 1) : IsGap(cs, k)
\* a gap between two consecutive candles of cs[a..b]
GapWithin(cs, a, b) == \E k \in (a + 1)..b : IsGap(cs, k)

Contains(c, price) == c.low <= price /\ price <= c.high
HasDirection(c, direction) ==
    IF direction = "BUY" THEN c.close > c.open ELSE c.close < c.open
HasOpposite(c, direction) ==
    IF direction = "BUY" THEN c.close < c.open ELSE c.close > c.open

\* the candles of a setup or trade x whose breaking candle is at index b
LscIdx(x, b) == b - x.pullback_length - 1
FirstStreakIdx(x, b) == b - x.pullback_length - x.streak_length
BreakingIdxOfTrade(cs, t) == IdxOfTime(cs, t.breaking_candle_time)
CrossesGap(cs, t) ==
    GapWithin(cs, FirstStreakIdx(t, BreakingIdxOfTrade(cs, t)), IdxOfTime(cs, t.exit.time))

RECURSIVE Flatten(_)
Flatten(ss) == IF ss = <<>> THEN <<>> ELSE Head(ss) \o Flatten(Tail(ss))

RECURSIVE Keep(_, _, _)
\* the trades of ts that do not cross a gap of cs
Keep(cs, ts, k) ==
    IF k > Len(ts) THEN <<>>
    ELSE (IF CrossesGap(cs, ts[k]) THEN <<>> ELSE <<ts[k]>>) \o Keep(cs, ts, k + 1)

Split == phase \in {"gap_trades", "gap_both", "done"}

-----------------------------------------------------------------------------
\* C1: with strictly increasing times, of any two adjacent trades returned by
\* generate_trades and by generate_trades_with_gap_resets the earlier one's
\* exit.time is strictly less than the later one's entry.time.
NoOverlap(ts) == \A k \in 1..(Len(ts) - 1) : ts[k].exit.time < ts[k + 1].entry.time

C1_TradesDoNotOverlap ==
    StrictlyIncreasingTimes(candles) => NoOverlap(eng.trades) /\ NoOverlap(g_trades)

C1_Witness ==
    /\ phase = "done" /\ StrictlyIncreasingTimes(candles)
    /\ Len(eng.trades) >= 2 /\ Len(g_trades) >= 2

\* C2: a confirmation candle at index c that matches the pending direction,
\* with no later candle containing the target, makes the function return at
\* once: trades and setups stay as they are, no trade has entry.time >= time[c]
\* and no setup is later than the breaking candle at c - 1.
UnresolvedEntry ==
    /\ phase = "engine" /\ eng.pc = "loop" /\ eng.i < Len(candles)
    /\ eng.state = AWAIT_CONFIRMATION /\ eng.pending # None
    /\ candle_dir(At(candles, eng.i)) = Get(eng.pending).streak_dir
    /\ \A k \in (eng.i + 1)..(Len(candles) - 1) :
          ~Contains(At(candles, k), Get(eng.pending).target)

C2_NoExitStopsTheScan ==
    [][UnresolvedEntry =>
        /\ eng'.pc = "returned"
        /\ eng'.trades = eng.trades /\ eng'.setups = eng.setups
        /\ \A k \in DOMAIN eng'.trades :
              eng'.trades[k].entry.time < At(candles, eng.i).time
        /\ \A k \in DOMAIN eng'.setups :
              eng'.setups[k].time <= At(candles, eng.i - 1).time]_vars

\* the scan stopped at an unresolved entry although the candles after it
\* hold a pattern that makes a trade
C2_Witness ==
    /\ eng.pc = "returned" /\ eng.i < Len(candles)
    /\ eng.state = AWAIT_CONFIRMATION
    /\ generate_trades(Slice(candles, eng.i + 1, Len(candles))) # <<>>

\* C3: every trade of generate_trades_with_gap_resets lies in one segment: no
\* two consecutive candles between its first streak candle and its exit candle
\* are more than expected_step_seconds apart, its entry candle follows its
\* breaking candle, and its exit is the first candle after the entry that
\* contains the target (so an entry whose first touch lies after a gap yields
\* no trade).
InOneSegment(cs, t) ==
    LET b == BreakingIdxOfTrade(cs, t)
        c == IdxOfTime(cs, t.entry.time)
        x == IdxOfTime(cs, t.exit.time)
    IN  /\ 0 <= FirstStreakIdx(t, b) /\ c = b + 1 /\ c < x
        /\ ~GapWithin(cs, FirstStreakIdx(t, b), x)
        /\ \A k \in (c + 1)..(x - 1) : ~Contains(At(cs, k), t.target)

C3_TradesStayInOneSegment ==
    \A k \in DOMAIN g_trades : InOneSegment(candles, g_trades[k])

\* the direct run returns a trade across a gap; the wrapper does not return it
\* and returns another one
C3_Witness ==
    /\ phase = "done" /\ g_trades # <<>>
    /\ \E k \in DOMAIN eng.trades :
          /\ CrossesGap(candles, eng.trades[k])
          /\ \A j \in DOMAIN g_trades : g_trades[j] # eng.trades[k]

\* C4: generate_trades_and_setups_with_gap_resets returns the concatenation,
\* in segment order, of generate_trades_and_setups(segment) over the segments
\* of split_candles_on_gaps(candles); after k segments it holds that of the
\* first k.
RECURSIVE ResultsOf(_, _, _)
ResultsOf(segs, k, which) ==
    IF k = 0 THEN <<>>
    ELSE ResultsOf(segs, k - 1, which) \o generate_trades_and_setups(segs[k])[which]

C4_WrapperConcatenatesSegments ==
    LET segs == split_candles_on_gaps(candles, EXPECTED_STEP_SECONDS)
    IN  /\ phase = "gap_both" =>
              /\ w_trades = ResultsOf(segs, seg_k, 1)
              /\ w_setups = ResultsOf(segs, seg_k, 2)
        /\ phase = "done" =>
              /\ w_trades = ResultsOf(segs, Len(segs), 1)
              /\ w_setups = ResultsOf(segs, Len(segs), 2)

\* the first segment's scan stopped at an entry without exit, and a later
\* segment still gave a trade and a setup
C4_Witness ==
    /\ phase = "done" /\ Len(segments) >= 2
    /\ LET r == RunEngine(EngineInit(segments[1]), segments[1])
       IN  r.pc = "returned" /\ r.i < Len(segments[1]) /\ r.setups # <<>>
    /\ w_trades # <<>>
    /\ Len(w_setups) >= 2

\* C5 as stated: the wrapper's trades are the direct run's trades without
\* those that cross a gap.
C5_WrapperIsDirectWithoutGapTrades ==
    phase = "done" => g_trades = Keep(candles, eng.trades, 1)

\* C5, amended: on an input without a gap the wrapper and the direct run
\* return the same trades.
C5_SameTradesWithoutGap ==
    (phase = "done" /\ ~HasGap(candles)) => g_trades = eng.trades

C5_Witness ==
    phase = "done" /\ ~HasGap(candles) /\ Len(candles) > 1 /\ Len(eng.trades) >= 2

\* C6: split_candles_on_gaps returns non-empty segments whose concatenation
\* is the input; within a segment consecutive times differ by at most
\* expected_step_seconds and across adjacent segments by more; the empty
\* input gives no segment.
C6_SplitIsTheGapPartition ==
    Split =>
        /\ \A k \in DOMAIN segments : segments[k] # <<>>
        /\ Flatten(segments) = candles
        /\ candles = <<>> => segments = <<>>
        /\ \A k \in DOMAIN segments : \A j \in 1..(Len(segments[k]) - 1) :
              segments[k][j + 1].time - segments[k][j].time <= EXPECTED_STEP_SECONDS
        /\ \A k \in 1..(Len(segments) - 1) :
              segments[k + 1][1].time - segments[k][Len(segments[k])].time
                  > EXPECTED_STEP_SECONDS

\* a split in two, each part longer than one candle
C6_Witness ==
    /\ phase = "gap_trades" /\ Len(segments) = 2
    /\ Len(segments[1]) > 1 /\ Len(segments[2]) > 1

StreakBefore(cs, x, b) ==
    /\ x.streak_length >= MinStreak
    /\ FirstStreakIdx(x, b) >= 0
    /\ \A k \in FirstStreakIdx(x, b)..LscIdx(x, b) : HasDirection(At(cs, k), x.direction)

C8_StreaksAreAtLeastFour ==
    /\ \A k \in DOMAIN eng.setups :
          StreakBefore(candles, eng.setups[k], IdxOfTime(candles, eng.setups[k].time))
    /\ \A k \in DOMAIN eng.trades :
          StreakBefore(candles, eng.trades[k], BreakingIdxOfTrade(candles, eng.trades[k]))
    /\ (eng.pc = "loop" /\ eng.state = IN_PULLBACK) =>
          /\ Get(eng.setup_streak_length) >= MinStreak
          /\ Get(eng.lsc_idx) - Get(eng.setup_streak_length) + 1 >= 0
          /\ \A k \in (Get(eng.lsc_idx) - Get(eng.setup_streak_length) + 1)..Get(eng.lsc_idx) :
                candle_dir(At(candles, k)) = eng.streak_dir

\* a trade and its setup after a streak of more than four
C8_Witness ==
    /\ eng.pc = "returned"
    /\ \E k \in DOMAIN eng.trades : eng.trades[k].streak_length > MinStreak
    /\ \E k \in DOMAIN eng.setups : eng.setups[k].streak_length > MinStreak

\* C9: the pullback length, once set, is 1 or 2, and every setup and trade has
\* pullback_length 1 or 2 with exactly that many candles of the opposite
\* direction between the last streak candle and the breaking candle.
PullbackBefore(cs, x, b) ==
    /\ x.pullback_length \in {FirstPullback, MaxPullback}
    /\ LscIdx(x, b) >= 0
    /\ HasDirection(At(cs, LscIdx(x, b)), x.direction)
    /\ \A k \in (LscIdx(x, b) + 1)..(b - 1) : HasOpposite(At(cs, k), x.direction)
    /\ HasDirection(At(cs, b), x.direction)

C9_PullbacksAreOneOrTwo ==
    /\ eng.pullback_length \in {None, Some(FirstPullback), Some(MaxPullback)}
    /\ \A k \in DOMAIN eng.setups :
          PullbackBefore(candles, eng.setups[k], IdxOfTime(candles, eng.setups[k].time))
    /\ \A k \in DOMAIN eng.trades :
          PullbackBefore(candles, eng.trades[k], BreakingIdxOfTrade(candles, eng.trades[k]))

\* a setup after a pullback of one, one after a pullback of two, and a trade
C9_Witness ==
    /\ eng.pc = "returned" /\ eng.trades # <<>>
    /\ \E k \in DOMAIN eng.setups : eng.setups[k].pullback_length = FirstPullback
    /\ \E k \in DOMAIN eng.setups : eng.setups[k].pullback_length = MaxPullback

\* C10: the target of every setup follows Case A / Case B: if a pullback
\* candle contains the midpoint of the last streak candle, the target is that
\* candle's low (BUY) or high (SELL); otherwise it is the lowest low (BUY) or
\* the highest high (SELL) of the pullback.
MidpointTouched(cs, x, b) ==
    LET lsc == At(cs, LscIdx(x, b))
    IN  \E k \in (LscIdx(x, b) + 1)..(b - 1) :
            /\ 2 * At(cs, k).low <= lsc.high + lsc.low
            /\ lsc.high + lsc.low <= 2 * At(cs, k).high

TargetByCase(cs, x, b) ==
    LET lsc == At(cs, LscIdx(x, b))
        pb == (LscIdx(x, b) + 1)..(b - 1)
    IN  IF MidpointTouched(cs, x, b)
        THEN x.target = (IF x.direction = "BUY" THEN lsc.low ELSE lsc.high)
        ELSE IF x.direction = "BUY"
        THEN /\ \E k \in pb : x.target = At(cs, k).low
             /\ \A k \in pb : x.target <= At(cs, k).low
        ELSE /\ \E k \in pb : x.target = At(cs, k).high
             /\ \A k \in pb : x.target >= At(cs, k).high

C10_TargetFollowsCaseAB ==
    \A k \in DOMAIN eng.setups :
        TargetByCase(candles, eng.setups[k], IdxOfTime(candles, eng.setups[k].time))

\* a BUY and a SELL setup, one of Case A and one of Case B
C10_Witness ==
    /\ eng.pc = "returned"
    /\ \E j, k \in DOMAIN eng.setups :
          /\ eng.setups[j].direction # eng.setups[k].direction
          /\ MidpointTouched(candles, eng.setups[j], IdxOfTime(candles, eng.setups[j].time))
          /\ ~MidpointTouched(candles, eng.setups[k], IdxOfTime(candles, eng.setups[k].time))

-----------------------------------------------------------------------------
\* C11: for every setup computed from candles with low <= high, the target
\* lies between the lowest low and the highest high of the last streak candle
\* and the pullback candles.
HullIdx(s, b) == LscIdx(s, b)..(b - 1)
HullLow(cs, s) ==
    MinOf({At(cs, k).low : k \in HullIdx(s, IdxOfTime(cs, s.time))})
HullHigh(cs, s) ==
    MaxOf({At(cs, k).high : k \in HullIdx(s, IdxOfTime(cs, s.time))})
WithinHull(cs, s) == HullLow(cs, s) <= s.target /\ s.target <= HullHigh(cs, s)
WellFormed(cs) == \A k \in DOMAIN cs : cs[k].low <= cs[k].high

C11_TargetWithinHull ==
    WellFormed(candles) =>
        /\ \A k \in DOMAIN eng.setups : WithinHull(candles, eng.setups[k])
        /\ \A k \in DOMAIN w_setups : WithinHull(candles, w_setups[k])

\* one setup with its target on the boundary of the hull (Case A) and one
\* with its target inside it (Case B)
C11_Witness ==
    /\ phase = "done" /\ WellFormed(candles)
    /\ \E k \in DOMAIN eng.setups :
          eng.setups[k].target \in
              {HullLow(candles, eng.setups[k]), HullHigh(candles, eng.setups[k])}
    /\ \E k \in DOMAIN w_setups :
          /\ HullLow(candles, w_setups[k]) < w_setups[k].target
          /\ w_setups[k].target < HullHigh(candles, w_setups[k])

-----------------------------------------------------------------------------
\* C12: for every trade, exit.price equals the target and the exit candle is
\* the first candle after the confirmation (entry) candle that contains the
\* target: no candle strictly between entry and exit contains it, and the
\* confirmation candle is never the exit, even if it contains the target.
ExitIsFirstTouch(cs, t) ==
    LET c == IdxOfTime(cs, t.entry.time)
        x == IdxOfTime(cs, t.exit.time)
    IN  /\ t.exit.price = t.target
        /\ c < x
        /\ Contains(At(cs, x), t.target)
        /\ \A k \in (c + 1)..(x - 1) : ~Contains(At(cs, k), t.target)

C12_ExitIsFirstTouchAfterEntry ==
    /\ \A k \in DOMAIN eng.trades : ExitIsFirstTouch(candles, eng.trades[k])
    /\ \A k \in DOMAIN g_trades : ExitIsFirstTouch(candles, g_trades[k])
    /\ \A k \in DOMAIN w_trades : ExitIsFirstTouch(candles, w_trades[k])

\* a trade whose confirmation candle contains the target, and a trade with a
\* candle between entry and exit
C12_Witness ==
    /\ phase = "done"
    /\ \E k \in DOMAIN eng.trades :
          Contains(At(candles, IdxOfTime(candles, eng.trades[k].entry.time)),
                   eng.trades[k].target)
    /\ \E k \in DOMAIN w_trades :
          IdxOfTime(candles, w_trades[k].exit.time)
              > IdxOfTime(candles, w_trades[k].entry.time) + 1

-----------------------------------------------------------------------------
\* C13: a setup is appended exactly when, in IN_PULLBACK, a candle of the
\* streak's direction arrives and the pullback is valid (no pullback low
\* strictly below LSC.open for a bullish streak, no pullback high strictly
\* above it for a bearish one; equality is valid).  Its time is that
\* candle's time, whether or not the breaking condition holds; in every
\* other step, an invalid pullback included, the setups stay as they are.
StreakCandleArrives ==
    /\ phase = "engine" /\ eng.pc = "loop" /\ eng.i < Len(candles)
    /\ eng.state = IN_PULLBACK
    /\ \/ eng.streak_dir = 1 /\ At(candles, eng.i).close > At(candles, eng.i).open
       \/ eng.streak_dir = -1 /\ At(candles, eng.i).close < At(candles, eng.i).open

PullbackValid ==
    LET lsc == At(candles, Get(eng.lsc_idx))
        first == Get(eng.pullback_start_idx)
        idx == first..(first + Get(eng.pullback_length) - 1)
    IN  IF eng.streak_dir = 1
        THEN \A k \in idx : At(candles, k).low >= lsc.open
        ELSE \A k \in idx : At(candles, k).high <= lsc.open

C13_SetupExactlyOnValidPullback ==
    [][IF StreakCandleArrives /\ PullbackValid
       THEN /\ Len(eng'.setups) = Len(eng.setups) + 1
            /\ SubSeq(eng'.setups, 1, Len(eng.setups)) = eng.setups
            /\ eng'.setups[Len(eng'.setups)].time = At(candles, eng.i).time
       ELSE eng'.setups = eng.setups]_vars

\* the pullback of setup s comes back exactly to the open of the LSC
AtOpen(cs, s) ==
    LET b == IdxOfTime(cs, s.time)
        lsc == At(cs, LscIdx(s, b))
    IN  IF s.direction = "BUY"
        THEN MinOf({At(cs, k).low : k \in (LscIdx(s, b) + 1)..(b - 1)}) = lsc.open
        ELSE MaxOf({At(cs, k).high : k \in (LscIdx(s, b) + 1)..(b - 1)}) = lsc.open

\* a setup after a pullback exactly at the open, whose breaking candle fails
\* the breaking condition, and no trade
C13_Witness ==
    /\ eng.pc = "returned" /\ eng.trades = <<>>
    /\ \E k \in DOMAIN eng.setups :
          LET s == eng.setups[k]
              close == At(candles, IdxOfTime(candles, s.time)).close
          IN  /\ AtOpen(candles, s)
              /\ IF s.direction = "BUY" THEN close >= s.target ELSE close <= s.target

-----------------------------------------------------------------------------
\* C14: with strictly increasing candle times, the setups returned by
\* generate_trades_and_setups and by generate_trades_and_setups_with_gap_resets
\* are in non-decreasing order of time, and the trades in non-decreasing
\* order of entry.time and of exit.time.
SetupsInOrder(ss) == \A k \in 1..(Len(ss) - 1) : ss[k].time <= ss[k + 1].time
TradesInOrder(ts) ==
    \A k \in 1..(Len(ts) - 1) :
        /\ ts[k].entry.time <= ts[k + 1].entry.time
        /\ ts[k].exit.time <= ts[k + 1].exit.time

C14_ResultsInTimeOrder ==
    StrictlyIncreasingTimes(candles) =>
        /\ SetupsInOrder(eng.setups) /\ TradesInOrder(eng.trades)
        /\ SetupsInOrder(w_setups) /\ TradesInOrder(w_trades)

\* two trades and two setups, from the whole list and from two segments
C14_Witness ==
    /\ phase = "done" /\ StrictlyIncreasingTimes(candles) /\ Len(segments) >= 2
    /\ Len(eng.trades) >= 2 /\ Len(eng.setups) >= 2
    /\ Len(w_trades) >= 2 /\ Len(w_setups) >= 2

-----------------------------------------------------------------------------
\* C15 is not stated: an operator applied twice to the same list gives the
\* same value in any model.

-----------------------------------------------------------------------------
\* C16: the trades of generate_trades depend only on time, open, high, low
\* and close: a candle list that differs from another one only in volume or
\* pattern_alert (present, absent or any value) gives the same trades.
Volumes == {0, 7}
Alerts == {"", "break"}

\* cs with a volume that grows by v from candle to candle
WithVolume(cs, v) ==
    [k \in DOMAIN cs |->
        [time |-> cs[k].time, open |-> cs[k].open, high |-> cs[k].high,
         low |-> cs[k].low, close |-> cs[k].close, volume |-> v * k]]

\* cs with the alert a on every second candle and no alert on the others
WithAlert(cs, a) ==
    [k \in DOMAIN cs |->
        [time |-> cs[k].time, open |-> cs[k].open, high |-> cs[k].high,
         low |-> cs[k].low, close |-> cs[k].close,
         pattern_alert |-> IF k % 2 = 0 THEN Some(a) ELSE None]]

WithBoth(cs, v, a) ==
    [k \in DOMAIN cs |->
        [time |-> cs[k].time, open |-> cs[k].open, high |-> cs[k].high,
         low |-> cs[k].low, close |-> cs[k].close, volume |-> v * k,
         pattern_alert |-> IF k % 2 = 0 THEN Some(a) ELSE None]]

Annotated(cs) ==
    {WithVolume(cs, v) : v \in Volumes} \cup {WithAlert(cs, a) : a \in Alerts}
    \cup {WithBoth(cs, v, a) : v \in Volumes, a \in Alerts}

C16_VolumeAndAlertAreIgnored ==
    phase = "engine" /\ eng.pc = "returned" =>
        \A cs \in Annotated(candles) : generate_trades(cs) = eng.trades

C16_Witness ==
    /\ phase = "engine" /\ eng.pc = "returned" /\ eng.trades # <<>>
    /\ \A cs \in Annotated(candles) : cs # candles /\ generate_trades(cs) # <<>>

-----------------------------------------------------------------------------
\* C17: generate_trades, called directly, decides nothing by the candle
\* times: the same prices with other times give the same trades but for the
\* copied times of the breaking, entry and exit candles; so with a gap
\* between the entry and the first touch of the target it returns the trade
\* that spans the gap.
Retimed(cs, t0, step) ==
    [k \in DOMAIN cs |-> [cs[k] EXCEPT !.time = t0 + step * (k - 1)]]

\* regular times, a gap at every step, decreasing times, one time for all
Retimings(cs) ==
    {Retimed(cs, 0, EXPECTED_STEP_SECONDS), Retimed(cs, LongStep, LongStep),
     Retimed(cs, 0, -EXPECTED_STEP_SECONDS), Retimed(cs, 0, 0)}

\* trade t of cs with the times of the same candles of rt
MoveTimes(t, cs, rt) ==
    [t EXCEPT !.breaking_candle_time = At(rt, IdxOfTime(cs, @)).time,
              !.entry.time = At(rt, IdxOfTime(cs, @)).time,
              !.exit.time = At(rt, IdxOfTime(cs, @)).time]

C17_DirectRunIgnoresTimes ==
    phase = "engine" /\ eng.pc = "returned" =>
        \A rt \in Retimings(candles) :
            generate_trades(rt) =
                [k \in DOMAIN eng.trades |-> MoveTimes(eng.trades[k], candles, rt)]

\* the direct run returned a trade with a gap between entry and exit
C17_Witness ==
    /\ phase = "engine" /\ eng.pc = "returned"
    /\ \E k \in DOMAIN eng.trades :
          GapWithin(candles, IdxOfTime(candles, eng.trades[k].entry.time),
                    IdxOfTime(candles, eng.trades[k].exit.time))
    /\ \E rt \in Retimings(candles) : rt # candles /\ generate_trades(rt) # <<>>

-----------------------------------------------------------------------------
\* C18: two invocations of generate_trades_and_setups on independent candle
\* lists, their loop steps interleaved in any order, each return what they
\* return when run alone: at every point each invocation is on the way to
\* its own result, and a step of one is the step it takes alone and leaves
\* the cursor, the streak and pullback variables, the pending setup and the
\* output lists of the other as they are.
ResultFrom(e, cs) ==
    LET r == RunEngine(e, cs) IN <<r.pc, r.trades, r.setups>>
Alone(cs) == ResultFrom(EngineInit(cs), cs)

OnTheWayToItsOwnResult ==
    /\ ResultFrom(eng, candles) = Alone(candles)
    /\ ResultFrom(peer.eng, peer.candles) = Alone(peer.candles)

OneStepOfOne ==
    \/ eng' = EngineStep(eng, candles) /\ peer' = peer
    \/ peer' = [candles |-> peer.candles,
                eng |-> EngineStep(peer.eng, peer.candles)] /\ eng' = eng

-----------------------------------------------------------------------------
\* C19: the engine is in AWAIT_CONFIRMATION only after a breaking candle
\* that has the streak's direction and closes strictly beyond the target
\* (close < target for a bullish streak, close > target for a bearish one;
\* close = target fails).  So the breaking candle of every trade does, and
\* a setup whose breaking candle does not is the setup of no trade.
Breaks(c, direction, target) ==
    /\ HasDirection(c, direction)
    /\ IF direction = "BUY" THEN c.close < target ELSE c.close > target

BrokenBy(cs, ts) ==
    \A k \in DOMAIN ts :
        Breaks(At(cs, BreakingIdxOfTrade(cs, ts[k])), ts[k].direction, ts[k].target)

NoTradeWithoutBreak(cs, ss, ts) ==
    \A k \in DOMAIN ss :
        ~Breaks(At(cs, IdxOfTime(cs, ss[k].time)), ss[k].direction, ss[k].target)
            => \A j \in DOMAIN ts : ts[j].breaking_candle_time # ss[k].time

C19_AwaitOnlyAfterStrictBreak ==
    /\ eng.state = AWAIT_CONFIRMATION =>
          /\ eng.pending # None /\ eng.i >= 1
          /\ Get(eng.pending).breaking_candle_time = At(candles, eng.i - 1).time
          /\ Breaks(At(candles, eng.i - 1),
                    IF Get(eng.pending).streak_dir = 1 THEN "BUY" ELSE "SELL",
                    Get(eng.pending).target)
    /\ BrokenBy(candles, eng.trades) /\ BrokenBy(candles, w_trades)
    /\ NoTradeWithoutBreak(candles, eng.setups, eng.trades)
    /\ NoTradeWithoutBreak(candles, w_setups, w_trades)

\* a setup whose breaking candle closes exactly at the target, and a trade
\* of another setup
C19_Witness ==
    /\ phase = "done" /\ eng.trades # <<>> /\ w_trades # <<>>
    /\ \E k \in DOMAIN eng.setups :
          /\ At(candles, IdxOfTime(candles, eng.setups[k].time)).close
                = eng.setups[k].target
          /\ \A j \in DOMAIN eng.trades :
                eng.trades[j].breaking_candle_time # eng.setups[k].time

-----------------------------------------------------------------------------
\* C20: only the candle right after the breaking candle can confirm: the
\* entry candle of every trade is at the index of its breaking candle plus
\* one, has the streak's direction, and entry.price is its close.  If that
\* candle is a doji the pending setup is given up (no trade is appended, and
\* by the first part none ever is for it) and the state becomes SEEK_STREAK;
\* if it has the opposite direction the pending setup is given up and the
\* state becomes IN_STREAK with a new streak of length 1 at that candle.
EntryFollowsBreak(cs, ts) ==
    \A k \in DOMAIN ts :
        LET c == IdxOfTime(cs, ts[k].entry.time)
        IN  /\ c = BreakingIdxOfTrade(cs, ts[k]) + 1
            /\ HasDirection(At(cs, c), ts[k].direction)
            /\ ts[k].entry.price = At(cs, c).close

AwaitsAt(c_dir) ==
    /\ phase = "engine" /\ eng.pc = "loop" /\ eng.i < Len(candles)
    /\ eng.state = AWAIT_CONFIRMATION
    /\ LET c == At(candles, eng.i)
       IN  CASE c_dir = 0 -> c.close = c.open
             [] c_dir = 1 -> c.close > c.open
             [] OTHER -> c.close < c.open

MismatchDiscards ==
    /\ AwaitsAt(0) =>
          /\ eng'.state = SEEK_STREAK /\ eng'.i = eng.i + 1
          /\ eng'.trades = eng.trades /\ eng'.setups = eng.setups
    /\ \A d \in {1, -1} :
          AwaitsAt(d) /\ d = -Get(eng.pending).streak_dir =>
              /\ eng'.state = IN_STREAK /\ eng'.i = eng.i + 1
              /\ eng'.streak_dir = d
              /\ eng'.streak_start_idx = eng.i /\ eng'.streak_length = 1
              /\ eng'.trades = eng.trades /\ eng'.setups = eng.setups

C20_OnlyTheNextCandleConfirms ==
    /\ [](/\ EntryFollowsBreak(candles, eng.trades)
          /\ EntryFollowsBreak(candles, g_trades)
          /\ EntryFollowsBreak(candles, w_trades))
    /\ [][MismatchDiscards]_vars

\* the candle after a breaking candle had the opposite direction and began
\* a streak, the given-up setup made no trade, and a later one did
C20_Witness ==
    /\ eng.pc = "returned" /\ eng.trades # <<>>
    /\ \E k \in DOMAIN eng.setups :
          LET s == eng.setups[k]
              b == IdxOfTime(candles, s.time)
          IN  /\ Breaks(At(candles, b), s.direction, s.target)
              /\ b + 1 < Len(candles)
              /\ HasOpposite(At(candles, b + 1), s.direction)
              /\ \A j \in DOMAIN eng.trades :
                    eng.trades[j].breaking_candle_time # s.time

-----------------------------------------------------------------------------
\* C21: a loop step on a doji (close = open), in any of the four states,
\* ends in SEEK_STREAK and appends no setup and no trade; the streak, the
\* pullback or the pending setup in progress is given up, so that no setup
\* has a doji among its streak, pullback or breaking candles and no trade a
\* doji as its confirmation candle.
IsDoji(c) == c.close = c.open

AtDoji ==
    /\ phase = "engine" /\ eng.pc = "loop" /\ eng.i < Len(candles)
    /\ IsDoji(At(candles, eng.i))

DojiStep ==
    AtDoji =>
        /\ eng'.pc = "loop" /\ eng'.state = SEEK_STREAK /\ eng'.i = eng.i + 1
        /\ eng'.trades = eng.trades /\ eng'.setups = eng.setups

NoDojiInSetups(cs, ss) ==
    \A k \in DOMAIN ss :
        LET b == IdxOfTime(cs, ss[k].time)
        IN  \A j \in FirstStreakIdx(ss[k], b)..b : ~IsDoji(At(cs, j))

NoDojiConfirms(cs, ts) ==
    \A k \in DOMAIN ts : ~IsDoji(At(cs, IdxOfTime(cs, ts[k].entry.time)))

C21_DojiEndsWhatIsInProgress ==
    /\ [][DojiStep]_vars
    /\ [](/\ NoDojiInSetups(candles, eng.setups) /\ NoDojiConfirms(candles, eng.trades)
          /\ NoDojiInSetups(candles, w_setups) /\ NoDojiConfirms(candles, w_trades))

\* a doji came as the second candle of a pullback: the pullback's values
\* are left behind, no setup was made and the engine seeks a new streak
C21_Witness ==
    /\ phase = "engine" /\ eng.pc = "loop" /\ eng.state = SEEK_STREAK
    /\ eng.i >= 2 /\ IsDoji(At(candles, eng.i - 1))
    /\ eng.pullback_start_idx = Some(eng.i - 2)
    /\ eng.pullback_length = Some(FirstPullback)
    /\ eng.setups = <<>>

-----------------------------------------------------------------------------
\* C22: a third consecutive opposite candle in IN_PULLBACK (the pullback
\* already has length 2) makes no setup and moves the engine to IN_STREAK
\* with the pullback's direction, the pullback's first candle as the start
\* of the streak and streak_length 3; so one more candle of that direction
\* and then an opposite one open a new pullback with streak_length 4.
ThirdOppositeArrives ==
    /\ phase = "engine" /\ eng.pc = "loop" /\ eng.i < Len(candles)
    /\ eng.state = IN_PULLBACK /\ eng.pullback_length = Some(2)
    /\ \/ eng.streak_dir = 1 /\ At(candles, eng.i).close < At(candles, eng.i).open
       \/ eng.streak_dir = -1 /\ At(candles, eng.i).close > At(candles, eng.i).open

\* the streak that began as a pullback has grown by one candle and an
\* opposite candle arrives
OppositeAfterOneMore ==
    /\ phase = "engine" /\ eng.pc = "loop" /\ eng.i < Len(candles)
    /\ eng.state = IN_STREAK /\ eng.streak_length = 4
    /\ eng.pullback_start_idx = Some(eng.streak_start_idx)
    /\ eng.streak_start_idx = eng.i - 4
    /\ \/ eng.streak_dir = 1 /\ At(candles, eng.i).close < At(candles, eng.i).open
       \/ eng.streak_dir = -1 /\ At(candles, eng.i).close > At(candles, eng.i).open

ThirdOppositeReseeds ==
    /\ ThirdOppositeArrives =>
          /\ eng'.state = IN_STREAK /\ eng'.streak_dir = -eng.streak_dir
          /\ eng'.streak_start_idx = Get(eng.pullback_start_idx)
          /\ eng'.streak_start_idx = eng.i - 2
          /\ eng'.streak_length = 3 /\ eng'.i = eng.i + 1
          /\ eng'.setups = eng.setups /\ eng'.trades = eng.trades
    /\ OppositeAfterOneMore =>
          /\ eng'.state = IN_PULLBACK /\ eng'.setup_streak_length = Some(4)
          /\ eng'.lsc_idx = Some(eng.i - 1)
          /\ eng'.pullback_start_idx = Some(eng.i)
          /\ eng'.pullback_length = Some(1)

C22_ThirdOppositeReseedsTheStreak == [][ThirdOppositeReseeds]_vars

\* a trade on a streak of 4 that began as the pullback of a streak of 4
C22_Witness ==
    /\ eng.pc = "returned"
    /\ \E k \in DOMAIN eng.trades :
          LET t == eng.trades[k]
              f == FirstStreakIdx(t, BreakingIdxOfTrade(candles, t))
          IN  /\ t.streak_length = 4 /\ f >= 4
              /\ \A j \in (f - 4)..(f - 1) : HasOpposite(At(candles, j), t.direction)

-----------------------------------------------------------------------------
\* C23: when the pullback is invalid, or valid with a breaking condition
\* that fails, the engine moves to IN_STREAK with the breaking candle as the
\* first candle of a new streak of length 1 in the direction of the old one,
\* whose length is not carried over; three more candles of that direction
\* are needed before a new pullback can begin.
BreakFails ==
    /\ StreakCandleArrives
    /\ \/ ~PullbackValid
       \/ LET target == eng'.setups[Len(eng'.setups)].target
              close == At(candles, eng.i).close
          IN  IF eng.streak_dir = 1 THEN close >= target ELSE close <= target

FailedBreakStartsAStreak ==
    BreakFails =>
        /\ eng'.state = IN_STREAK /\ eng'.streak_dir = eng.streak_dir
        /\ eng'.streak_start_idx = eng.i /\ eng'.streak_length = 1
        /\ eng'.i = eng.i + 1 /\ eng'.trades = eng.trades

\* a pullback begins four candles or more after the start of its streak
PullbackAfterFour ==
    eng.state = IN_PULLBACK =>
        /\ Get(eng.pullback_start_idx) - eng.streak_start_idx >= 4
        /\ Get(eng.pullback_start_idx) - eng.streak_start_idx
              = Get(eng.setup_streak_length)
        /\ \A k \in eng.streak_start_idx..(Get(eng.pullback_start_idx) - 1) :
              candle_dir(At(candles, k)) = eng.streak_dir

C23_FailedBreakStartsANewStreak ==
    [][FailedBreakStartsAStreak]_vars /\ []PullbackAfterFour

\* a pullback on the streak that began at the breaking candle of a setup
\* whose breaking condition failed
C23_Witness ==
    /\ phase = "engine" /\ eng.pc = "loop" /\ eng.state = IN_PULLBACK
    /\ eng.trades = <<>>
    /\ \E k \in DOMAIN eng.setups :
          IdxOfTime(candles, eng.setups[k].time) = eng.streak_start_idx

-----------------------------------------------------------------------------
\* C24: after a trade with its exit candle at index e is recorded the engine
\* is in SEEK_STREAK with the cursor at e + 1 and no pending setup; the
\* candles from the confirmation candle through e take no part in any later
\* streak, pullback or setup, so no setup has a time t with
\* entry.time <= t <= exit.time of a returned trade.
TradeRecorded == Len(eng'.trades) = Len(eng.trades) + 1

AfterTheTrade ==
    TradeRecorded =>
        LET t == eng'.trades[Len(eng'.trades)]
        IN  /\ eng'.state = SEEK_STREAK /\ eng'.pending = None
            /\ eng'.i = IdxOfTime(candles, t.exit.time) + 1
            /\ t.entry.time = At(candles, eng.i).time

\* no candle of setup s is a candle of trade t from its entry to its exit
Apart(cs, s, t) ==
    LET b == IdxOfTime(cs, s.time)
    IN  \/ b < IdxOfTime(cs, t.entry.time)
        \/ FirstStreakIdx(s, b) > IdxOfTime(cs, t.exit.time)

SetupsApartFromTrades(cs, ss, ts) ==
    \A k \in DOMAIN ss : \A j \in DOMAIN ts :
        /\ Apart(cs, ss[k], ts[j])
        /\ ~(ts[j].entry.time <= ss[k].time /\ ss[k].time <= ts[j].exit.time)

\* the streak in progress began after the exit of the last trade
StreakAfterLastExit ==
    eng.pc = "loop" /\ eng.state # SEEK_STREAK /\ eng.trades # <<>> =>
        eng.streak_start_idx
            > IdxOfTime(candles, eng.trades[Len(eng.trades)].exit.time)

C24_TradeCandlesAreNotReused ==
    /\ [][AfterTheTrade]_vars
    /\ [](/\ SetupsApartFromTrades(candles, eng.setups, eng.trades)
          /\ SetupsApartFromTrades(candles, w_setups, w_trades)
          /\ StreakAfterLastExit)

\* the streak of a later setup begins right after the exit candle of a trade
C24_Witness ==
    /\ eng.pc = "returned"
    /\ \E k \in DOMAIN eng.trades : \E j \in DOMAIN eng.setups :
          FirstStreakIdx(eng.setups[j], IdxOfTime(candles, eng.setups[j].time))
              = IdxOfTime(candles, eng.trades[k].exit.time) + 1

-----------------------------------------------------------------------------
\* C25, as stated: the streak of every setup is a maximal run: all its
\* candles have the streak's direction and the candle just before its first
\* candle, if there is one in the segment, does not.
StreakIsARun(cs, s) ==
    LET b == IdxOfTime(cs, s.time)
    IN  \A k \in FirstStreakIdx(s, b)..LscIdx(s, b) : HasDirection(At(cs, k), s.direction)

\* the streak of s begins at the first candle of its segment
StartsItsSegment(cs, f) == f = 0 \/ IsGap(cs, f)

MaximalRun(cs, s, segmented) ==
    LET f == FirstStreakIdx(s, IdxOfTime(cs, s.time))
    IN  /\ StreakIsARun(cs, s)
        /\ \/ f = 0
           \/ segmented /\ StartsItsSegment(cs, f)
           \/ ~HasDirection(At(cs, f - 1), s.direction)

C25_StreaksAreMaximalRuns ==
    /\ \A k \in DOMAIN eng.setups : MaximalRun(candles, eng.setups[k], FALSE)
    /\ \A k \in DOMAIN w_setups : MaximalRun(candles, w_setups[k], TRUE)

\* C25, amended: the streak of every setup is a maximal run of the candles
\* after the exit candle of the trade before it: the candle just before its
\* first candle does not have the streak's direction unless it is the exit
\* candle of a trade; the same holds of the streak in progress.
FollowsAnExit(cs, f, ts) ==
    \E j \in DOMAIN ts : IdxOfTime(cs, ts[j].exit.time) = f - 1

MaximalSinceExit(cs, s, ts, segmented) ==
    LET f == FirstStreakIdx(s, IdxOfTime(cs, s.time))
    IN  /\ StreakIsARun(cs, s)
        /\ \/ f = 0
           \/ segmented /\ StartsItsSegment(cs, f)
           \/ ~HasDirection(At(cs, f - 1), s.direction)
           \/ FollowsAnExit(cs, f, ts)

StreakInProgressIsMaximal ==
    phase = "engine" /\ eng.pc = "loop" /\ eng.state = IN_STREAK =>
        /\ eng.streak_start_idx + eng.streak_length = eng.i
        /\ \A k \in eng.streak_start_idx..(eng.i - 1) :
              candle_dir(At(candles, k)) = eng.streak_dir
        /\ \/ eng.streak_start_idx = 0
           \/ candle_dir(At(candles, eng.streak_start_idx - 1)) # eng.streak_dir
           \/ FollowsAnExit(candles, eng.streak_start_idx, eng.trades)

C25_StreaksAreMaximalSinceTheLastExit ==
    /\ \A k \in DOMAIN eng.setups :
          MaximalSinceExit(candles, eng.setups[k], eng.trades, FALSE)
    /\ \A k \in DOMAIN w_setups :
          MaximalSinceExit(candles, w_setups[k], w_trades, TRUE)
    /\ StreakInProgressIsMaximal

\* a setup whose streak begins right after an exit candle of its direction
C25_Witness ==
    /\ eng.pc = "returned"
    /\ \E k \in DOMAIN eng.setups :
          LET s == eng.setups[k]
              f == FirstStreakIdx(s, IdxOfTime(candles, s.time))
          IN  /\ f > 0 /\ HasDirection(At(candles, f - 1), s.direction)
              /\ FollowsAnExit(candles, f, eng.trades)

-----------------------------------------------------------------------------
\* C26: in every reachable configuration of generate_trades_and_setups the
\* state is one of the four states, so the 'Unknown state' RuntimeError is
\* never raised, and the assertions hold: in IN_PULLBACK lsc_idx,
\* setup_streak_length, pullback_start_idx and pullback_length are set, and
\* in AWAIT_CONFIRMATION pending is set.
States == {SEEK_STREAK, IN_STREAK, IN_PULLBACK, AWAIT_CONFIRMATION}

NothingRaised(e) ==
    /\ e.pc # "raised"
    /\ e.state \in States
    /\ e.state = IN_PULLBACK =>
          /\ e.lsc_idx # None /\ e.setup_streak_length # None
          /\ e.pullback_start_idx # None /\ e.pullback_length # None
    /\ e.state = AWAIT_CONFIRMATION => e.pending # None

C26_NoUnknownStateNoFailedAssertion ==
    /\ NothingRaised(eng)
    /\ phase = "done" =>
          \A k \in DOMAIN segments :
              NothingRaised(RunEngine(EngineInit(segments[k]), segments[k]))

\* the engine awaits a confirmation for the second time
C26_Witness ==
    /\ phase = "engine" /\ eng.pc = "loop" /\ eng.state = AWAIT_CONFIRMATION
    /\ eng.trades # <<>> /\ eng.pending # None /\ eng.lsc_idx # None

-----------------------------------------------------------------------------
\* C27: the only state transitions of the engine are
\*   SEEK_STREAK -> SEEK_STREAK, IN_STREAK;
\*   IN_STREAK -> IN_STREAK, SEEK_STREAK, IN_PULLBACK;
\*   IN_PULLBACK -> IN_PULLBACK, SEEK_STREAK, IN_STREAK, AWAIT_CONFIRMATION;
\*   AWAIT_CONFIRMATION -> SEEK_STREAK, IN_STREAK;
\* so IN_PULLBACK is entered only from IN_STREAK, AWAIT_CONFIRMATION only
\* from IN_PULLBACK, and AWAIT_CONFIRMATION lasts one loop step: the step on
\* the candle after the breaking candle leaves it or returns.
Transitions ==
    {<<SEEK_STREAK, SEEK_STREAK>>, <<SEEK_STREAK, IN_STREAK>>,
     <<IN_STREAK, IN_STREAK>>, <<IN_STREAK, SEEK_STREAK>>, <<IN_STREAK, IN_PULLBACK>>,
     <<IN_PULLBACK, IN_PULLBACK>>, <<IN_PULLBACK, SEEK_STREAK>>,
     <<IN_PULLBACK, IN_STREAK>>, <<IN_PULLBACK, AWAIT_CONFIRMATION>>,
     <<AWAIT_CONFIRMATION, SEEK_STREAK>>, <<AWAIT_CONFIRMATION, IN_STREAK>>}

\* a loop iteration that does not return
Iterates ==
    /\ phase = "engine" /\ eng.pc = "loop" /\ eng.i < Len(candles)
    /\ eng' # eng /\ eng'.pc = "loop"

TransitionAllowed ==
    /\ Iterates => <<eng.state, eng'.state>> \in Transitions
    /\ eng'.state # eng.state => <<eng.state, eng'.state>> \in Transitions

C27_OnlyTheListedTransitions == [][TransitionAllowed]_vars

\* the step out of AWAIT_CONFIRMATION into a new streak has just been
\* taken, after an earlier step out of it into SEEK_STREAK with a trade
C27_Witness ==
    /\ phase = "engine" /\ eng.pc = "loop" /\ eng.state = IN_STREAK
    /\ eng.i >= 2 /\ eng.streak_start_idx = eng.i - 1 /\ eng.streak_length = 1
    /\ eng.pending # None
    /\ Get(eng.pending).breaking_candle_time = At(candles, eng.i - 2).time
    /\ eng.trades # <<>>

-----------------------------------------------------------------------------
\* C28: the scan cursor i strictly increases on every loop iteration of
\* generate_trades_and_setups (by 1, or to exit_idx + 1 after a trade) and
\* never decreases, so a list of n candles takes at most n iterations and
\* the function always terminates, returning either when the list is
\* exhausted or at the return of an entry without exit.
CursorAdvances ==
    /\ eng'.i >= eng.i
    /\ phase = "engine" /\ eng.pc = "loop" /\ eng.i < Len(candles) =>
          \/ /\ eng'.pc = "loop" /\ ~TradeRecorded /\ eng'.i = eng.i + 1
          \/ /\ eng'.pc = "loop" /\ TradeRecorded
             /\ eng'.i = IdxOfTime(candles, eng'.trades[Len(eng'.trades)].exit.time) + 1
             /\ eng'.i > eng.i + 1
          \/ /\ eng'.pc = "returned" /\ UnresolvedEntry /\ eng'.i = eng.i

\* the cursor counts the iterations or more, and never leaves the list
ReturnsWhereItShould ==
    /\ eng.i <= Len(candles)
    /\ eng.pc = "returned" =>
          \/ eng.i = Len(candles)
          \/ /\ eng.state = AWAIT_CONFIRMATION /\ eng.i < Len(candles)
             /\ \A k \in (eng.i + 1)..(Len(candles) - 1) :
                   ~Contains(At(candles, k), Get(eng.pending).target)

C28_TheScanTerminates ==
    /\ [][CursorAdvances]_vars
    /\ []ReturnsWhereItShould
    /\ <>(eng.pc = "returned")

\* the function returned at the end of the list after a jump of the cursor
\* over the candles of a trade
C28_Witness ==
    /\ eng.pc = "returned" /\ eng.i = Len(candles) /\ Len(candles) > 0
    /\ \E k \in DOMAIN eng.trades :
          IdxOfTime(candles, eng.trades[k].exit.time)
              > IdxOfTime(candles, eng.trades[k].entry.time) + 1

-----------------------------------------------------------------------------
\* C29, as stated: an empty list, a pullback beyond its bounds (a third
\* opposite candle, or a pullback candle beyond LSC.open) and a doji in
\* mid-pattern are each handled without an exception, by a transition back
\* to SEEK_STREAK.
BreachArrives == StreakCandleArrives /\ ~PullbackValid
DojiInMidPattern == AtDoji /\ eng.state # SEEK_STREAK

EmptyListReturnsNothing ==
    candles = <<>> =>
        /\ eng.pc = "returned" /\ eng.trades = <<>> /\ eng.setups = <<>>
        /\ g_trades = <<>> /\ w_trades = <<>> /\ w_setups = <<>>

C29_InvalidShapesGoBackToSeekStreak ==
    /\ [][ThirdOppositeArrives \/ BreachArrives \/ DojiInMidPattern =>
            eng'.pc = "loop" /\ eng'.state = SEEK_STREAK]_vars
    /\ []EmptyListReturnsNothing

\* C29, amended: none of them raises an exception; an empty list returns at
\* once with no trade and no setup, a doji in mid-pattern leads back to
\* SEEK_STREAK, and a third opposite candle or a pullback candle beyond
\* LSC.open leads to IN_STREAK with a new streak.
HandledWithoutException ==
    /\ DojiInMidPattern => eng'.pc = "loop" /\ eng'.state = SEEK_STREAK
    /\ ThirdOppositeArrives =>
          /\ eng'.pc = "loop" /\ eng'.state = IN_STREAK
          /\ eng'.streak_start_idx = Get(eng.pullback_start_idx)
    /\ BreachArrives =>
          /\ eng'.pc = "loop" /\ eng'.state = IN_STREAK
          /\ eng'.streak_start_idx = eng.i /\ eng'.setups = eng.setups

C29_InvalidShapesRaiseNothing ==
    /\ [][HandledWithoutException]_vars
    /\ [](EmptyListReturnsNothing /\ eng.pc # "raised")

\* a streak has just begun at the candle that ended a pullback beyond
\* LSC.open; no setup was made
C29_Witness ==
    /\ phase = "engine" /\ eng.pc = "loop" /\ eng.state = IN_STREAK
    /\ eng.streak_start_idx = eng.i - 1 /\ eng.streak_length = 1
    /\ eng.lsc_idx # None
    /\ Get(eng.pullback_start_idx) + Get(eng.pullback_length) = eng.i - 1
    /\ ~PullbackValid /\ eng.setups = <<>>

-----------------------------------------------------------------------------
\* C30: every trade returned by generate_trades_and_setups has exactly one
\* matching setup among the returned setups: the same direction,
\* streak_length, pullback_length and target, and the setup's time is the
\* trade's breaking_candle_time; distinct trades match distinct setups, so
\* there are never more trades than setups.
MatchesSetup(t, s) ==
    /\ s.time = t.breaking_candle_time
    /\ s.direction = t.direction
    /\ s.streak_length = t.streak_length
    /\ s.pullback_length = t.pullback_length
    /\ s.target = t.target

SetupsOf(t, ss) == {k \in DOMAIN ss : MatchesSetup(t, ss[k])}

OneSetupPerTrade(ts, ss) ==
    /\ \A j \in DOMAIN ts : Cardinality(SetupsOf(ts[j], ss)) = 1
    /\ \A j, k \in DOMAIN ts : j # k => SetupsOf(ts[j], ss) \cap SetupsOf(ts[k], ss) = {}
    /\ Len(ts) <= Len(ss)

C30_EveryTradeHasItsSetup ==
    OneSetupPerTrade(eng.trades, eng.setups) /\ OneSetupPerTrade(w_trades, w_setups)

\* a trade after a pullback of two candles, and a setup that made no trade
C30_Witness ==
    /\ eng.pc = "returned"
    /\ Len(eng.trades) >= 1 /\ Len(eng.setups) > Len(eng.trades)
    /\ \E k \in DOMAIN eng.trades : eng.trades[k].pullback_length = 2

-----------------------------------------------------------------------------
\* C31: when generate_trades_and_setups stops early because the entry finds
\* no exit, it returns what it had accumulated, unchanged: the earlier trades
\* and setups and, as the last setup, the one of the unresolved entry, whose
\* time is that of the breaking candle just before the confirmation candle.
IsSetupOfPending(s, pending) ==
    /\ s.time = pending.breaking_candle_time
    /\ s.direction = DirectionName(pending.streak_dir)
    /\ s.streak_length = pending.streak_length
    /\ s.pullback_length = pending.pullback_length
    /\ s.target = pending.target

ReturnsWhatItHad ==
    UnresolvedEntry =>
        /\ eng'.pc = "returned"
        /\ eng'.trades = eng.trades /\ eng'.setups = eng.setups
        /\ generate_trades_and_setups(candles) = <<eng.trades, eng.setups>>

StoppedEarly == eng.pc = "returned" /\ eng.i < Len(candles)

LastSetupIsTheUnresolvedOne ==
    StoppedEarly =>
        /\ eng.state = AWAIT_CONFIRMATION /\ eng.pending # None
        /\ eng.setups # <<>>
        /\ IsSetupOfPending(eng.setups[Len(eng.setups)], Get(eng.pending))
        /\ eng.setups[Len(eng.setups)].time = At(candles, eng.i - 1).time
        /\ \A k \in DOMAIN eng.trades :
              eng.trades[k].breaking_candle_time < At(candles, eng.i - 1).time

C31_EarlyReturnKeepsWhatWasAccumulated ==
    [][ReturnsWhatItHad]_vars /\ []LastSetupIsTheUnresolvedOne

\* the scan stopped at an entry without exit after a trade, with the setup of
\* that trade and the setup of the unresolved entry
C31_Witness ==
    /\ StoppedEarly
    /\ Len(eng.trades) >= 1 /\ Len(eng.setups) >= 2
    /\ eng.setups[Len(eng.setups)].time = At(candles, eng.i - 1).time

-----------------------------------------------------------------------------
\* C32: for every setup computed from well-formed candles (low <= min(open,
\* close) and max(open, close) <= high) the target is not strictly inside the
\* pullback: for BUY it is at most the lowest low of the pullback candles and
\* for SELL at least their highest high.
MinOC(c) == IF c.open <= c.close THEN c.open ELSE c.close
MaxOC(c) == IF c.open >= c.close THEN c.open ELSE c.close
ExtremesAreExtremes(cs) ==
    \A k \in DOMAIN cs : cs[k].low <= MinOC(cs[k]) /\ MaxOC(cs[k]) <= cs[k].high

PullbackIdx(s, b) == (b - s.pullback_length)..(b - 1)
BeyondPullback(cs, s) ==
    \A k \in PullbackIdx(s, IdxOfTime(cs, s.time)) :
        IF s.direction = "BUY" THEN s.target <= At(cs, k).low
                               ELSE s.target >= At(cs, k).high

C32_TargetIsNotInsideThePullback ==
    ExtremesAreExtremes(candles) =>
        /\ \A k \in DOMAIN eng.setups : BeyondPullback(candles, eng.setups[k])
        /\ \A k \in DOMAIN w_setups : BeyondPullback(candles, w_setups[k])

\* a setup of Case A after a pullback of two candles, its target strictly
\* beyond one of them and at the extreme of the other
C32_Witness ==
    /\ phase = "done" /\ ExtremesAreExtremes(candles)
    /\ \E k \in DOMAIN w_setups :
          LET s == w_setups[k]
              b == IdxOfTime(candles, s.time)
          IN  /\ s.pullback_length = MaxPullback
              /\ s.target \in {At(candles, LscIdx(s, b)).low, At(candles, LscIdx(s, b)).high}
              /\ \E j \in PullbackIdx(s, b) :
                    s.target \in {At(candles, j).low, At(candles, j).high}
              /\ \E j \in PullbackIdx(s, b) :
                    s.target \notin {At(candles, j).low, At(candles, j).high}

-----------------------------------------------------------------------------
\* C33: in one run of generate_trades_and_setups the breaking candle of every
\* setup is at index >= 5, the entry candle of the first trade at index >= 6
\* and the entry candle of each later trade at index >= the previous trade's
\* exit index + 7; a list of fewer than 6 candles gives no setup and one of
\* fewer than 8 candles no trade.
EntryIdx(cs, t) == IdxOfTime(cs, t.entry.time)
ExitIdx(cs, t) == IdxOfTime(cs, t.exit.time)

PatternsNeedRoom(cs, ts, ss) ==
    /\ \A k \in DOMAIN ss : IdxOfTime(cs, ss[k].time) >= 5
    /\ ts # <<>> => EntryIdx(cs, ts[1]) >= 6
    /\ \A k \in 2..Len(ts) : EntryIdx(cs, ts[k]) >= ExitIdx(cs, ts[k - 1]) + 7
    /\ Len(cs) < 6 => ss = <<>>
    /\ Len(cs) < 8 => ts = <<>>

SegmentsNeedRoom ==
    \A k \in DOMAIN segments :
        LET r == generate_trades_and_setups(segments[k])
        IN  PatternsNeedRoom(segments[k], r[1], r[2])

C33_PatternsNeedRoom ==
    /\ PatternsNeedRoom(candles, eng.trades, eng.setups)
    /\ Split => SegmentsNeedRoom

\* two trades, each as early as it can be
C33_Witness ==
    /\ phase = "done" /\ Len(eng.trades) >= 2
    /\ IdxOfTime(candles, eng.setups[1].time) = 5
    /\ EntryIdx(candles, eng.trades[1]) = 6
    /\ ExitIdx(candles, eng.trades[1]) = 7
    /\ EntryIdx(candles, eng.trades[2]) = ExitIdx(candles, eng.trades[1]) + 7

-----------------------------------------------------------------------------
\* C34: LockedStreakPullbackStrategy (allow_long = allow_short = True) and
\* the dict-based generate_trades, run on the same candles, return the same
\* sequence of trades: the same direction (long/BUY, short/SELL),
\* streak_length, pullback_length, target, entry time and price, and exit
\* time and price.
SameTrade(lt, t) ==
    /\ lt.direction = (IF t.direction = "BUY" THEN "long" ELSE "short")
    /\ lt.streak_length = t.streak_length
    /\ lt.pullback_length = t.pullback_length
    /\ lt.target = t.target
    /\ lt.entry_time = Timestamp(t.entry.time) /\ lt.entry_price = t.entry.price
    /\ lt.exit_time = Timestamp(t.exit.time) /\ lt.exit_price = t.exit.price

SameTrades(lts, ts) ==
    /\ Len(lts) = Len(ts)
    /\ \A k \in DOMAIN lts : SameTrade(lts[k], ts[k])

C34_LockedAndEngineAgree ==
    (phase = "compared" /\ locked.allow_long /\ locked.allow_short) =>
        SameTrades(locked.trades, eng.trades)

-----------------------------------------------------------------------------
\* C35: whenever the engine is in IN_STREAK at the top of the loop with cursor
\* i, streak_dir is 1 or -1, streak_start_idx < i, streak_length is
\* i - streak_start_idx, and every candle at streak_start_idx .. i-1 has
\* direction streak_dir, however the streak was started or re-seeded.
StreakVariablesAgree(e, cs) ==
    /\ e.streak_dir \in {1, -1}
    /\ 0 <= e.streak_start_idx /\ e.streak_start_idx < e.i /\ e.i <= Len(cs)
    /\ e.streak_length = e.i - e.streak_start_idx
    /\ \A k \in e.streak_start_idx..(e.i - 1) : candle_dir(At(cs, k)) = e.streak_dir

C35_StreakVariablesDescribeTheRun ==
    (eng.pc = "loop" /\ eng.state = IN_STREAK) => StreakVariablesAgree(eng, candles)

\* the streak has just been re-seeded by a third opposite candle, after a
\* trade
C35_Witness ==
    /\ phase = "engine" /\ eng.pc = "loop" /\ eng.state = IN_STREAK
    /\ eng.trades # <<>>
    /\ eng.pullback_start_idx # None
    /\ eng.streak_start_idx = Get(eng.pullback_start_idx)
    /\ eng.streak_length = MaxPullback + 1
    /\ eng.i = eng.streak_start_idx + eng.streak_length

-----------------------------------------------------------------------------
\* C36: the defensive branch of IN_PULLBACK (the candle is neither a doji,
\* nor opposite to the streak, nor of the streak's direction) is never taken:
\* streak_dir is 1 or -1 whenever the state is IN_PULLBACK, so each candle
\* direction in {-1, 0, 1} is handled by one of the three cases before it.
InPullbackAtTop ==
    /\ phase = "engine" /\ eng.pc = "loop" /\ eng.i < Len(candles)
    /\ eng.state = IN_PULLBACK

DefensiveBranchTaken ==
    LET c_dir == candle_dir(At(candles, eng.i))
    IN  /\ InPullbackAtTop
        /\ c_dir # 0 /\ c_dir # -eng.streak_dir /\ c_dir # eng.streak_dir

StreakDirInPullback ==
    (eng.pc = "loop" /\ eng.state = IN_PULLBACK) => eng.streak_dir \in {1, -1}

\* only the doji and the defensive branch lead from IN_PULLBACK to SEEK_STREAK
OnlyADojiAborts ==
    (InPullbackAtTop /\ eng'.state = SEEK_STREAK) =>
        candle_dir(At(candles, eng.i)) = 0

C36_DefensiveBranchIsUnreachable ==
    /\ [](StreakDirInPullback /\ ~DefensiveBranchTaken)
    /\ [][OnlyADojiAborts]_vars

\* after a trade, a bearish streak and a pullback of two candles; the candle
\* at the cursor has the streak's direction
C36_Witness ==
    /\ InPullbackAtTop /\ eng.streak_dir = -1
    /\ eng.pullback_length = Some(MaxPullback)
    /\ candle_dir(At(candles, eng.i)) = eng.streak_dir
    /\ eng.trades # <<>>

=============================================================================
